---- MODULE Spec2Model ----
(***************************************************************************)
(* State-machine model of the simulation/animation core of portfolio-beta: *)
(* SceneManager (src/src/scene.js), the parts of App that drive it         *)
(* (src/unnamed/part_001) and the browser's requestAnimationFrame / timer  *)
(* queues it runs on.                                                      *)
(*                                                                         *)
(* Units.  Time is counted in ticks, TicksPerSecond ticks to the second.   *)
(* Scales and strengths are in thousandths (5.0 is 5000).  Blob positions, *)
(* velocities and world coordinates are in ten-thousandths (0.25 is 2500). *)
(* Screen coordinates are in hundredths of a pixel.  Angles are in         *)
(* milliradians, sines and normalized device coordinates in thousandths.   *)
(*                                                                         *)
(* Granularity.  One browser task (a click or timer handler) is one        *)
(* action.  An animation frame is BeginFrame, which snapshots the list of  *)
(* requested callbacks and advances the clock, followed by one RunCallback *)
(* per callback of the snapshot, in request order.  No task runs while a   *)
(* frame's callbacks are running (JavaScript is run-to-completion).        *)
(***************************************************************************)
EXTENDS Integers, Sequences, FiniteSets, TLC

\* ------------------------------------------------------------------ bounds
TicksPerSecond == 2      \* clock resolution of the model
MaxTime == 4             \* the clock stops at this tick (horizon of a run)
MaxDt == 2               \* a frame comes 1..MaxDt ticks after the previous one
MaxTransitions == 2      \* expandBlob/resetBlob calls in one run
MaxAboutOpens == 1       \* openAboutOverlay calls in one run
NumBlobs == 2            \* bodies of the simulation (the program has 8)
RngModulus == 16         \* states of the model's Math.random generator
MaxPlacements == 3       \* placements of the face in a run of the projector
MaxSmoothFrames == 50    \* accepted frames in a run of the smoothing alone
Seed == 0                \* the state Math.random starts in
MaxDelayed == 2          \* delayed tweens and calls of the face waiting at once
MaxFaults == 1           \* frame bodies that end in an exception in one run
MaxSpeaks == 2           \* speak() calls in one run
MaxEyeCalls == 2         \* setExpression() calls on the drawn eyes in one run

\* ------------------------------------------------------- program constants
duration == 1            \* seconds, expandBlob/resetBlob
NullHandle == 0          \* animationFrameId = null
smoothingFactor == 12    \* hundredths: const smoothingFactor = 0.12
ViewHalfHeight == 41421  \* 10 * tan(45 deg / 2), camera at z = 10, fov 45
maxAttempts == 3         \* for (let attempt = 0; attempt < 3; attempt++) of sendChat
embedPauseDelay == 200   \* ms: setTimeout(pause, 200) of enterEmbeddedMode
aboutShowDelay == 100    \* ms: outer setTimeout of openAboutOverlay
aboutPauseDelay == 1200  \* ms: setTimeout(pause, 1200) nested in it

DurationTicks == duration * TicksPerSecond

InitialScale == <<5000, 5000, 500>>     \* effect.scale.set(5.0, 5.0, 0.5)
ExpandTarget == <<40000, 40000, 500>>   \* new THREE.Vector3(40.0, 40.0, 0.5)
ResetTarget == <<5000, 5000, 500>>      \* new THREE.Vector3(5.0, 5.0, 0.5)

VARIABLES
    width,             \* SceneManager.width = window.innerWidth
    height,            \* SceneManager.height = window.innerHeight
    blobs,             \* SceneManager.blobs
    rng,               \* hidden state of Math.random
    field,             \* the balls injected into the MarchingCubes effect
    smoothed,          \* <<smoothedScreenX, smoothedScreenY>>
    faceTarget,        \* x, y the face container's position tween runs to
    placements,        \* history: FaceManager.updatePosition tweens started
    face,              \* SceneManager.faceManager, a record of its fields
    mouse,             \* SceneManager.mouse, <<x, y>>
    callArgs,          \* history: the arguments of the last call from outside
    frameSteps,        \* history: the steps of the last frame body, in order
    faults,            \* history: frame bodies ended by an exception
    net,               \* the services: environment, client objects, messages
    tts,               \* AudioService's playback and App.isTTSActive, a record
    chat,              \* the sendChat call of LLMService in flight, a record
    eyes,              \* the eye circles' r as drawn and gsap's tweens on it
    isPaused,          \* SceneManager.isPaused
    animationFrameId,  \* SceneManager.animationFrameId (NullHandle = null)
    scale,             \* SceneManager.effect.scale
    now,               \* SceneManager.clock.getElapsedTime(), in ticks
    nextHandle,        \* the handle the next requestAnimationFrame returns
    rafQueue,          \* callbacks requested for the next frame, in order
    frameQueue,        \* callbacks of the running frame not yet run
    trans,             \* the closures made by expandBlob/resetBlob, by call
    timers,            \* by kind, the due times of App's pending setTimeout callbacks
    isEmbedded,        \* App.isEmbedded
    embeddedActive,    \* ui.embedded has class 'active'
    aboutOpens,        \* openAboutOverlay calls so far
    aboutOpen,         \* the about overlay is the current view (opened, not closed)
    frameRuns,         \* history: frame bodies (update + render) executed
    cancelCount,       \* history: cancelAnimationFrame calls issued
    pauseStreak,       \* history: pause() calls since the last resume(), <= 2
    resumeStreak,      \* history: pauseStreak seen by the last resume()
    lastOp             \* history: the operation of the last step

schedVars == <<isPaused, animationFrameId, nextHandle, rafQueue, frameQueue>>
appVars == <<timers, isEmbedded, embeddedActive, aboutOpens, aboutOpen>>
histVars == <<frameRuns, cancelCount, pauseStreak, resumeStreak, lastOp,
              frameSteps, faults>>
simVars == <<blobs, rng, field>>
projVars == <<smoothed, faceTarget, placements>>
faceVars == <<face, mouse, callArgs, net, tts, chat, eyes>>
viewVars == <<width, height>>
vars == <<schedVars, scale, now, trans, appVars, histVars, simVars, projVars, viewVars,
          faceVars>>

\* the setTimeout chains of App that end in a call into the core: the one of
\* enterEmbeddedMode's onComplete and the one of openAboutOverlay
TimerKinds == {"embedPause", "aboutPause"}

Min(a, b) == IF a < b THEN a ELSE b

\* ----------------------------------------------------------- pure helpers

\* progress without the clamp of Math.min
ProgressUnclamped(t, startTime) == t - startTime

\* Math.min((now - startTime) / duration, 1), as a fraction of DurationTicks
Progress(t, startTime) == Min(t - startTime, DurationTicks)

\* 1 - Math.pow(1 - progress, 3), as a fraction of DurationTicks^3
Ease(p) ==
    DurationTicks * DurationTicks * DurationTicks
        - (DurationTicks - p) * (DurationTicks - p) * (DurationTicks - p)

EaseDen == DurationTicks * DurationTicks * DurationTicks

\* THREE.Vector3.lerpVectors(v1, v2, alpha): v1 + (v2 - v1) * alpha per axis
LerpVectors(v1, v2, easeNum) ==
    [i \in 1..3 |-> v1[i] + ((v2[i] - v1[i]) * easeNum) \div EaseDen]

AnimateCb(h) == [fn |-> "animate", id |-> h, tid |-> 0]
TransCb(h, t) == [fn |-> "transition", id |-> h, tid |-> t]

\* milliseconds from the call that arms a timer to the pause() it makes
DelayMs(k) == IF k = "embedPause" THEN embedPauseDelay
              ELSE aboutShowDelay + aboutPauseDelay

\* the same in clock ticks, rounded up
DelayTicks(k) == (DelayMs(k) * TicksPerSecond + 999) \div 1000

\* setTimeout at time t: timers of one kind have one delay and fall due in
\* the order they were set
AddTimer(tm, k, t) == [tm EXCEPT ![k] = Append(@, t + DelayTicks(k))]

\* ------------------------------------------------------------ Math.random
\* Math.random() is a deterministic generator with hidden state; the model
\* uses a small linear congruential one.  A draw returns rng / RngModulus.
NextRng(s) == (5 * s + 3) % RngModulus

RECURSIVE RngAt(_, _)
\* the generator's state after k further draws
RngAt(s, k) == IF k = 0 THEN s ELSE RngAt(NextRng(s), k - 1)

\* (Math.random() - 0.5) * amp for the draw made in state s; amp and the
\* result in the same unit
Centered(s, amp) == ((2 * s - RngModulus) * amp) \div (2 * RngModulus)

\* a * n / d rounded to the nearest unit, halves away from zero
MulDiv(a, n, d) ==
    IF a * n >= 0 THEN (2 * a * n + d) \div (2 * d)
    ELSE -((2 * (-(a * n)) + d) \div (2 * d))

\* Math.sin of an angle in milliradians, in thousandths (Bhaskara's formula
\* on the half period, odd symmetry on the other half)
SinMilli(a) ==
    LET x == a % 6283
        h == IF x <= 3141 THEN x ELSE x - 3141
        v == (16 * h * (3141 - h)) \div ((5 * 3141 * 3141 - 4 * h * (3141 - h)) \div 1000)
    IN  IF x <= 3141 THEN v ELSE -v

\* Math.cos(a) = Math.sin(a + pi/2)
CosMilli(a) == SinMilli(a + 1571)

\* ------------------------------------------------------------ the bodies
\* initObjects, the loop over this.numBlobs: blob i is made from five draws
InitBlob(s, i) ==
    [pos |-> <<Centered(RngAt(s, 5 * i), 5000), Centered(RngAt(s, 5 * i + 1), 5000), 0>>,
     vel |-> <<Centered(RngAt(s, 5 * i + 2), 100), Centered(RngAt(s, 5 * i + 3), 100), 0>>,
     strength |-> 300 + (RngAt(s, 5 * i + 4) * 550) \div RngModulus,
     subtract |-> 10,
     \* history: the integration steps the body has taken
     steps |-> 0]

InitBlobs(s) == [i \in 1..NumBlobs |-> InitBlob(s, i - 1)]

\* a forEach body that moves the blob by the velocity of the previous tick
\* and updates the velocity afterwards
UpdateBlobPositionFirst(blob, index, time, s) ==
    LET phase == (time * 250) \div TicksPerSecond + index * 1000
        v2x == MulDiv(blob.vel[1] + MulDiv(blob.pos[1], -3, 1000), 99, 100)
        v2y == MulDiv(blob.vel[2] + MulDiv(blob.pos[2], -3, 1000), 99, 100)
        v2z == MulDiv(blob.vel[3] + MulDiv(blob.pos[3], -3, 1000), 99, 100)
        v4x == v2x + MulDiv(SinMilli(phase), 3, 1000) + Centered(s, 20)
        v4y == v2y + MulDiv(CosMilli(phase), 3, 1000) + Centered(NextRng(s), 20)
    IN  [blob EXCEPT !.vel = <<v4x, v4y, v2z>>,
                     !.pos = <<blob.pos[1] + blob.vel[1], blob.pos[2] + blob.vel[2], 0>>,
                     !.steps = @ + 1]

\* the body of updateBlobs' forEach for one blob: index as in the code (from
\* 0), time in ticks, s the generator's state before the blob's two draws
UpdateBlob(blob, index, time, s) ==
    LET phase == (time * 250) \div TicksPerSecond + index * 1000
        \* 1. centre attraction: vel += pos * -0.003
        v1x == blob.vel[1] + MulDiv(blob.pos[1], -3, 1000)
        v1y == blob.vel[2] + MulDiv(blob.pos[2], -3, 1000)
        v1z == blob.vel[3] + MulDiv(blob.pos[3], -3, 1000)
        \* 2. damping: vel *= 0.99
        v2x == MulDiv(v1x, 99, 100)
        v2y == MulDiv(v1y, 99, 100)
        v2z == MulDiv(v1z, 99, 100)
        \* 3. flow: vel.x += sin(time * 0.25 + index) * 0.0003, y with cos
        v3x == v2x + MulDiv(SinMilli(phase), 3, 1000)
        v3y == v2y + MulDiv(CosMilli(phase), 3, 1000)
        \* 4. jitter: vel += (Math.random() - 0.5) * 0.002
        v4x == v3x + Centered(s, 20)
        v4y == v3y + Centered(NextRng(s), 20)
    IN  [blob EXCEPT !.vel = <<v4x, v4y, v2z>>,
                     \* pos.add(vel); pos.z = 0
                     !.pos = <<blob.pos[1] + v4x, blob.pos[2] + v4y, 0>>,
                     !.steps = @ + 1]

\* the blobs after one updateBlobs(time)
UpdateBlobs(bs, time, s) ==
    [i \in 1..Len(bs) |-> UpdateBlob(bs[i], i - 1, time, RngAt(s, 2 * (i - 1)))]

\* effect.reset(); one addBall per blob; effect.update()
FieldOf(bs) ==
    [i \in 1..Len(bs) |->
        [x |-> 5000 + MulDiv(bs[i].pos[1], 1, 2), y |-> 5000 + MulDiv(bs[i].pos[2], 1, 2),
         z |-> 5000, strength |-> bs[i].strength, subtract |-> bs[i].subtract]]

\* ------------------------------------------------ mass centre, projection
RECURSIVE SumSeq(_)
SumSeq(q) == IF q = <<>> THEN 0 ELSE Head(q) + SumSeq(Tail(q))

\* calculateMassCenter, up to the division: the strength-weighted centre of
\* the blobs in world space (effect.position is the origin)
MassCenter(bs, sc) ==
    LET worldX(b) == MulDiv(b.pos[1] * sc[1], 1, 2000)
        worldY(b) == MulDiv(b.pos[2] * sc[2], 1, 2000)
        totalMass == SumSeq([i \in 1..Len(bs) |-> bs[i].strength])
        sumX == SumSeq([i \in 1..Len(bs) |-> worldX(bs[i]) * bs[i].strength])
        sumY == SumSeq([i \in 1..Len(bs) |-> worldY(bs[i]) * bs[i].strength])
    IN  IF totalMass > 0
        THEN [x |-> MulDiv(sumX, 1, totalMass), y |-> MulDiv(sumY, 1, totalMass)]
        ELSE [x |-> sumX, y |-> sumY]

\* massCenter.clone().project(camera) and the conversion to pixels.  The
\* camera is at z = 10 with a vertical field of view of 45 degrees, so the
\* plane z = 0 is seen 4.1421 world units up and down; its aspect is
\* width / height, which is not a finite positive number when either is 0,
\* and then the projected point is not finite.
ProjectToScreen(mc, w, h) ==
    IF w = 0 \/ h = 0 THEN [finite |-> FALSE, x |-> 0, y |-> 0]
    ELSE LET ndcY == MulDiv(mc.y, 1000, ViewHalfHeight)
             ndcX == MulDiv(MulDiv(mc.x, 1000, ViewHalfHeight), 1000, MulDiv(w, 1000, h))
         IN  [finite |-> TRUE,
              x |-> MulDiv(ndcX + 1000, w, 2000),
              y |-> MulDiv(1000 - ndcY, h, 2000)]

\* a validation that checks for finite coordinates only
TargetAcceptedFiniteOnly(t, w, h) == t.finite

\* the validation of calculateMassCenter: TRUE when the target is used
TargetAccepted(t, w, h) ==
    t.finite /\ ~(t.x < 0 \/ t.x > w \/ t.y < 0 \/ t.y > h)

\* smoothing that takes the step from the target instead of toward it
SmoothReversed(sm, t) ==
    <<t.x - MulDiv(t.x - sm[1], smoothingFactor, 100),
      t.y - MulDiv(t.y - sm[2], smoothingFactor, 100)>>

\* smoothing that adds the step to the target
SmoothPastTarget(sm, t) ==
    <<t.x + MulDiv(t.x - sm[1], smoothingFactor, 100),
      t.y + MulDiv(t.y - sm[2], smoothingFactor, 100)>>

\* smoothed += (target - smoothed) * smoothingFactor
Smooth(sm, t) ==
    <<sm[1] + MulDiv(t.x - sm[1], smoothingFactor, 100),
      sm[2] + MulDiv(t.y - sm[2], smoothingFactor, 100)>>

\* history: the step called name of the frame body is done
Step(s, name) == [s EXCEPT !.frameSteps = Append(@, name)]

\* the history of the frame body starts anew
NoSteps(s) == [s EXCEPT !.frameSteps = <<>>]

\* updatePosition without the isFinite test
UpdatePositionUnguarded(s, pt) ==
    Step([s EXCEPT !.faceTarget = <<pt.x - s.width \div 2, pt.y - s.height \div 2>>,
                   !.placements = @ + 1], "place")

\* FaceManager.updatePosition(screenX, screenY) on the record s of the
\* program's state; pt is a screen point, finite or not
UpdatePosition(s, pt) ==
    IF ~pt.finite THEN s
    ELSE Step([s EXCEPT !.faceTarget = <<pt.x - s.width \div 2, pt.y - s.height \div 2>>,
                        !.placements = @ + 1], "place")

\* SceneManager.calculateMassCenter()
CalculateMassCenter(s) ==
    IF Len(s.blobs) = 0 THEN s
    ELSE LET t == ProjectToScreen(MassCenter(s.blobs, s.scale), s.width, s.height)
             s1 == Step(s, "project")
         IN  IF ~TargetAccepted(t, s.width, s.height) THEN s1
             ELSE LET sm == Smooth(s.smoothed, t)
                  IN  UpdatePosition(Step([s1 EXCEPT !.smoothed = sm], "smooth"),
                                     [finite |-> TRUE, x |-> sm[1], y |-> sm[2]])

\* SceneManager.updateBlobs(time)
UpdateBlobsOf(s, time) ==
    LET bs == UpdateBlobs(s.blobs, time, s.rng)
        \* the forEach: every body is integrated and added to the effect
        s1 == Step([s EXCEPT !.blobs = bs,
                             !.rng = RngAt(s.rng, 2 * Len(s.blobs))], "integrate")
        \* effect.update()
        s2 == Step([s1 EXCEPT !.field = FieldOf(bs)], "field")
    IN  CalculateMassCenter(s2)

\* ----------------------------------------------------------- JS numbers
\* A JavaScript number that may be NaN or an infinity: kind "num" with value
\* v, kind "inf" with the sign in v, or kind "nan".
Num(v) == [kind |-> "num", v |-> v]
NaN == [kind |-> "nan", v |-> 0]
Infinity(sgn) == [kind |-> "inf", v |-> sgn]

\* isFinite(a)
IsFinite(a) == a.kind = "num"

Sign(n) == IF n > 0 THEN 1 ELSE IF n < 0 THEN -1 ELSE 0

\* a / b of two integers of one unit, in thousandths: x / 0 is an infinity
\* and 0 / 0 is NaN
Quotient(a, b) ==
    IF b # 0 THEN Num(MulDiv(a, 1000, b))
    ELSE IF a = 0 THEN NaN ELSE Infinity(Sign(a))

\* -a
Neg(a) == IF a.kind = "nan" THEN a ELSE [a EXCEPT !.v = -@]

\* a * n / d for integers n, d > 0
Scaled(a, n, d) == IF a.kind = "num" THEN Num(MulDiv(a.v, n, d)) ELSE a

\* a + c for a finite c
Plus(a, c) == IF a.kind = "num" THEN Num(a.v + c) ELSE a

\* ------------------------------------------------------------ FaceManager
\* The face's elements hold the attribute values their tweens run to: a
\* tween without a delay is taken as one step with the call that starts it.
\* A delayed tween or call waits in the list 'delayed' until it fires.
Expressions == {"neutral", "happy", "surprised", "wink", "blink"}
Elements == {"nose", "mouth", "leftEye", "rightEye"}

\* this.parallaxMultipliers, in tenths
parallaxMultipliers == [nose |-> 10, mouth |-> 6, leftEye |-> 3, rightEye |-> 3]
maxOffset == 15          \* pixels: const maxOffset = 15
defaultRadius == 8       \* the r of an eye as created, and the || 8 of blink

NeutralMouth == <<85, 130, 115, 130>>     \* x1, y1, x2, y2
HappyMouth == <<85, 125, 115, 125>>
SurprisedMouth == <<100, 130, 100, 130>>
TalkOpenMouth == <<80, 135, 120, 135>>
TalkClosedMouth == <<90, 130, 110, 130>>

\* the FaceManager when the constructor reaches init(), its elements as
\* createFaceElements makes them.  History: started counts the tweens,
\* timelines and delayed calls the last call started, killed the timelines it
\* killed, liveLoops the talking timelines created and not killed, destroyed
\* that destroy() has removed the container.  blinkInterval is 1 while the
\* interval timer is set and not cleared.
NewFace ==
    [currentExpression |-> "neutral", expressionTimeline |-> 0,
     blinkInterval |-> 0, talkingTimeline |-> 0, talkingPhase |-> 0,
     mouseX |-> Num(0), mouseY |-> Num(0),
     attr |-> [leftEye |-> defaultRadius, rightEye |-> defaultRadius,
               mouth |-> NeutralMouth],
     offset |-> [e \in Elements |-> <<Num(0), Num(0)>>],
     delayed |-> <<>>, destroyed |-> FALSE,
     started |-> 0, killed |-> 0, liveLoops |-> 0]

\* gsap.to(el, {attr: val}) for one element
AttrTo(f, el, val) == [f EXCEPT !.attr[el] = val, !.started = @ + 1]

\* gsap.to([leftEye, rightEye], {attr: {r: r}}): one tween on both eyes
EyesTo(f, r) ==
    [f EXCEPT !.attr.leftEye = r, !.attr.rightEye = r, !.started = @ + 1]

\* a tween or call that is started now and acts later; history: of is the
\* expression the face has when it is started
Delay(f, els, r) ==
    [f EXCEPT !.delayed = Append(@, [els |-> els, r |-> r,
                                     of |-> f.currentExpression]),
              !.started = @ + 1]

\* the list q without its i-th entry
RemoveAt(q, i) == SubSeq(q, 1, i - 1) \o SubSeq(q, i + 1, Len(q))

\* the delayed entry d acts: its elements' r runs to d.r
Fire(f, d) ==
    [f EXCEPT !.attr = [e \in DOMAIN @ |-> IF e \in d.els THEN d.r ELSE @[e]]]

\* setNeutralExpression()
SetNeutralExpression(f) ==
    AttrTo(AttrTo(AttrTo(f, "leftEye", 8), "rightEye", 8), "mouth", NeutralMouth)

\* setHappyExpression()
SetHappyExpression(f) == AttrTo(EyesTo(f, 6), "mouth", HappyMouth)

\* setSurprisedExpression()
SetSurprisedExpression(f) == AttrTo(EyesTo(f, 12), "mouth", SurprisedMouth)

\* setWinkExpression(): the left eye closes, the right one opens, and a
\* delayed call reopens the left one
SetWinkExpression(f) ==
    Delay(AttrTo(AttrTo(f, "leftEye", 0), "rightEye", 8), {"leftEye"}, 8)

\* blink(): parseFloat(r) || 8 is 8 for a closed eye
Blink(f) ==
    LET currentRadius == IF f.attr.leftEye = 0 THEN defaultRadius
                         ELSE f.attr.leftEye
    IN  Delay(EyesTo(f, 0), {"leftEye", "rightEye"}, currentRadius)

\* setExpression that cancels the delayed tweens and calls still waiting
SetExpressionCancels(f, type) ==
    IF f.currentExpression = type THEN f
    ELSE LET g == [f EXCEPT !.currentExpression = type,
                            !.killed = @ + f.expressionTimeline,
                            !.expressionTimeline = 1,
                            !.delayed = <<>>]
         IN  CASE type = "neutral" -> SetNeutralExpression(g)
               [] type = "happy" -> SetHappyExpression(g)
               [] type = "surprised" -> SetSurprisedExpression(g)
               [] type = "wink" -> SetWinkExpression(g)
               [] type = "blink" -> Blink(g)
               [] OTHER -> SetNeutralExpression(g)

\* setExpression without the test for the current expression
SetExpressionUnguarded(f, type) ==
    LET g == [f EXCEPT !.currentExpression = type,
                       !.killed = @ + f.expressionTimeline,
                       !.expressionTimeline = 1]
    IN  CASE type = "neutral" -> SetNeutralExpression(g)
          [] type = "happy" -> SetHappyExpression(g)
          [] type = "surprised" -> SetSurprisedExpression(g)
          [] type = "wink" -> SetWinkExpression(g)
          [] type = "blink" -> Blink(g)
          [] OTHER -> SetNeutralExpression(g)

\* setExpression(type)
SetExpression(f, type) ==
    IF f.currentExpression = type THEN f
    ELSE LET g == [f EXCEPT !.currentExpression = type,
                            !.killed = @ + f.expressionTimeline,
                            !.expressionTimeline = 1]
         IN  CASE type = "neutral" -> SetNeutralExpression(g)
               [] type = "happy" -> SetHappyExpression(g)
               [] type = "surprised" -> SetSurprisedExpression(g)
               [] type = "wink" -> SetWinkExpression(g)
               [] type = "blink" -> Blink(g)
               [] OTHER -> SetNeutralExpression(g)

\* a callback that blinks whatever the expression
AutoBlinkCallbackUnguarded(f) == Blink(f)

\* the callback startAutoBlink gives to setInterval
AutoBlinkCallback(f) == IF f.currentExpression = "neutral" THEN Blink(f) ELSE f

\* startAutoBlink()
StartAutoBlink(f) == [f EXCEPT !.blinkInterval = 1]

\* init(): the calls it makes after the elements are created
FaceInit == StartAutoBlink(SetExpression(NewFace, "neutral"))

\* startTalkingAnimation without the test for a running timeline
StartTalkingAnimationUnguarded(f) ==
    [f EXCEPT !.talkingTimeline = 1, !.talkingPhase = 0,
              !.liveLoops = @ + 1, !.started = @ + 1]

\* startTalkingAnimation()
StartTalkingAnimation(f) ==
    IF f.talkingTimeline # 0 THEN f
    ELSE [f EXCEPT !.talkingTimeline = 1, !.talkingPhase = 0,
                   !.liveLoops = @ + 1, !.started = @ + 1]

\* stopTalkingAnimation that also puts the expression back to neutral
StopTalkingAnimationResets(f) ==
    LET g == IF f.talkingTimeline # 0
             THEN [f EXCEPT !.talkingTimeline = 0, !.liveLoops = @ - 1,
                            !.killed = @ + 1]
             ELSE f
    IN  AttrTo([g EXCEPT !.currentExpression = "neutral"], "mouth", NeutralMouth)

\* stopTalkingAnimation that returns the mouth to neutral only when it
\* stopped a talking timeline
StopTalkingAnimationIfTalking(f) ==
    IF f.talkingTimeline # 0
    THEN AttrTo([f EXCEPT !.talkingTimeline = 0, !.liveLoops = @ - 1,
                          !.killed = @ + 1], "mouth", NeutralMouth)
    ELSE f

\* stopTalkingAnimation()
StopTalkingAnimation(f) ==
    LET g == IF f.talkingTimeline # 0
             THEN [f EXCEPT !.talkingTimeline = 0, !.liveLoops = @ - 1,
                            !.killed = @ + 1]
             ELSE f
    IN  AttrTo(g, "mouth", NeutralMouth)

\* the next tween of a live talking timeline starts: the mouth opens, then
\* closes, and so on
TalkingStep(f) ==
    [f EXCEPT !.attr.mouth = IF f.talkingPhase = 0 THEN TalkOpenMouth
                             ELSE TalkClosedMouth,
              !.talkingPhase = 1 - @]

\* destroy(): the timelines are killed, the interval is cleared and the
\* container is removed from the document
Destroy(f) ==
    [f EXCEPT !.killed = @ + f.expressionTimeline + f.talkingTimeline,
              !.liveLoops = IF f.talkingTimeline # 0 THEN 0 ELSE @,
              !.blinkInterval = 0,
              !.destroyed = TRUE]

\* updateMousePosition that moves every element by the full maxOffset
UpdateMousePositionNoMultiplier(f, x, y) ==
    LET reflectedY == Neg(y)
    IN  [f EXCEPT !.mouseX = x, !.mouseY = y,
                  !.offset = [e \in Elements |->
                      <<Scaled(x, maxOffset, 1), Scaled(reflectedY, maxOffset, 1)>>],
                  !.started = @ + 4]

\* updateMousePosition(x, y): offsets in thousandths of a pixel
UpdateMousePosition(f, x, y) ==
    LET reflectedY == Neg(y)
    IN  [f EXCEPT !.mouseX = x, !.mouseY = y,
                  !.offset = [e \in Elements |->
                      <<Scaled(x, maxOffset * parallaxMultipliers[e], 10),
                        Scaled(reflectedY, maxOffset * parallaxMultipliers[e], 10)>>],
                  !.started = @ + 4]

\* a call from outside starts with the history of the call before cleared
Called(f) == [f EXCEPT !.started = 0, !.killed = 0]

\* ------------------------------------------- services, proxies and API keys
\* The record n of the services holds the environment of the build and of
\* the deployment, the client-side service objects constructed, and the last
\* request that left the browser, the last call a proxy made upstream and
\* the last response a proxy gave.  Undefined stands for undefined / null.
Undefined == "undefined"
Keys == {"VITE_ELEVENLABS_KEY", "ELEVENLABS_KEY", "OPENROUTER_KEY"}
Proxies == {"/api/elevenlabs", "/api/openrouter"}

\* an origin (or referer) is the list of the labels of its URL
Site == <<"beta", "xiaotianfanx", "com">>
Origins ==
    {<<"https">> \o Site, <<"https">> \o Site \o <<"evil", "example">>,
     <<"https", "evil", "example">>, <<"http", "localhost">>, <<>>}

\* origin.includes(part); never asked of the missing origin <<>>
Includes(origin, part) ==
    \E i \in 1..(Len(origin) - Len(part) + 1) :
        SubSeq(origin, i, i + Len(part) - 1) = part

\* getAllowedOrigin(req) of both proxies; Undefined is null
GetAllowedOrigin(req, isProduction) ==
    IF isProduction
    THEN IF req.origin # <<>> /\ Includes(req.origin, Site) THEN req.origin
         ELSE Undefined
    ELSE IF req.origin # <<>> /\ Includes(req.origin, <<"localhost">>)
         THEN req.origin
         ELSE "*"

\* process.env.ELEVENLABS_API_KEY / OPENROUTER_API_KEY as the proxy reads it
ProxyKey(n, proxy) ==
    IF proxy = "/api/elevenlabs" THEN n.env.elevenlabs ELSE n.env.openrouter

\* a response of a proxy: status, the Access-Control-Allow-Origin header
\* (Undefined when not set) and the values its JSON body is made of
Response(proxy, status, allow, body) ==
    [proxy |-> proxy, status |-> status, allowOrigin |-> allow, body |-> body]

\* no request has left the browser, no request was handled by a proxy, no
\* call was made upstream, no response was given
NoRequest == [from |-> Undefined, to |-> Undefined, key |-> Undefined]
NoHandled == [method |-> Undefined, origin |-> <<>>, valid |-> FALSE]
NoUpstream == [proxy |-> Undefined, key |-> Undefined, origin |-> <<>>]
NoResponse == Response(Undefined, 0, Undefined, {})

\* handler(req, res) of a proxy.  req has a method, an origin and, for the
\* text-to-speech proxy, the flag valid (voiceId and text are there);
\* outcome is what the third-party service does with the forwarded request.
\* History: handled is the request the proxy handled last.
Handler(n, proxy, req, outcome) ==
    LET allowedOrigin == GetAllowedOrigin(req, n.env.production)
        apiKey == ProxyKey(n, proxy)
        reply(status, allow, body) ==
            [n EXCEPT !.response = Response(proxy, status, allow, body),
                      !.upstream = NoUpstream, !.handled = req]
    IN  IF req.method = "OPTIONS" THEN reply(200, allowedOrigin, {})
        ELSE IF allowedOrigin = Undefined /\ n.env.production
        THEN reply(403, Undefined, {"Forbidden: Origin not allowed"})
        ELSE IF req.method # "POST"
        THEN reply(405, allowedOrigin, {"Method not allowed"})
        ELSE IF apiKey = Undefined
        THEN reply(500, allowedOrigin, {"API key not configured"})
        ELSE IF proxy = "/api/elevenlabs" /\ ~req.valid
        THEN reply(400, allowedOrigin, {"Missing required parameters"})
        ELSE LET sent == [n EXCEPT !.upstream =
                             [proxy |-> proxy, key |-> apiKey, origin |-> req.origin],
                                   !.handled = req]
             IN  CASE outcome = "ok" ->
                        [sent EXCEPT !.response =
                            Response(proxy, 200, allowedOrigin, {"upstream data"})]
                   [] outcome = "error" ->
                        [sent EXCEPT !.response =
                            Response(proxy, 502, allowedOrigin,
                                     {"API error", "upstream error text"})]
                   [] OTHER ->
                        [sent EXCEPT !.response =
                            Response(proxy, 500, allowedOrigin,
                                     {"Internal server error", "error.message"})]

\* a client-side service object: its module, the URL it calls and the API
\* key it holds
Client(module, apiUrl, apiKey) ==
    [module |-> module, apiUrl |-> apiUrl, apiKey |-> apiKey]

\* new AudioService() of audio.js
NewAudioService(n) ==
    [n EXCEPT !.clients = @ \cup {Client("audio.js", "/api/elevenlabs", Undefined)}]

\* new LLMService()
NewLLMService(n) ==
    [n EXCEPT !.clients = @ \cup {Client("llmService.js", "/api/openrouter", Undefined)}]

\* new AudioService() of the class scene.js exports: it reads
\* import.meta.env.VITE_ELEVENLABS_API_KEY and gives it to the SDK client
NewSceneAudioService(n) ==
    [n EXCEPT !.clients = @ \cup {Client("scene.js", Undefined, n.env.vite)}]

\* the request a service object sends from the browser for speak() or for
\* an attempt of sendChat(): to its proxy without a key, or, from the SDK
\* client of scene.js, to the third party with the key it holds (no request
\* when that class has no key: it falls back to the Web Speech API)
ClientRequest(n, c) ==
    IF c.apiUrl # Undefined
    THEN [n EXCEPT !.request = [from |-> c.module, to |-> c.apiUrl, key |-> Undefined]]
    ELSE IF c.apiKey # Undefined
    THEN [n EXCEPT !.request = [from |-> c.module, to |-> "api.elevenlabs.io",
                                key |-> c.apiKey]]
    ELSE n

\* the services before any is constructed, in the environment env
NewServices(env) ==
    [env |-> env, clients |-> {}, request |-> NoRequest, upstream |-> NoUpstream,
     response |-> NoResponse, handled |-> NoHandled]

\* the environment the program is built and deployed in as its README
\* prescribes: the keys are set for the proxies only, in production
DeployedEnv ==
    [vite |-> Undefined, elevenlabs |-> "ELEVENLABS_KEY",
     openrouter |-> "OPENROUTER_KEY", production |-> TRUE]

\* the environments considered: the key of the client build set or not, the
\* keys of the proxies set or not, production or not
Environments ==
    {[vite |-> v, elevenlabs |-> k[1], openrouter |-> k[2], production |-> p] :
        v \in {Undefined, "VITE_ELEVENLABS_KEY"},
        k \in {<<Undefined, Undefined>>, <<"ELEVENLABS_KEY", "OPENROUTER_KEY">>},
        p \in BOOLEAN}

\* ------------------------------------------------- sendChat (llmService.js)
\* What a fetch of sendChat can come to: the fetch rejects (net "error"), or
\* it gives a response with its ok flag and a body.  The body is of kind
\* "invalid" (response.json() rejects), "nochoices" (an object without
\* choices[0].message) or "data", with the content of the first choice.  A
\* content is null (kind "null") or a string, given by whether it is wrapped
\* in a markdown json fence and by what JSON.parse makes of the text inside:
\* "garbage" (no JSON), "null" (the JSON null) or "object", with the
\* message and the action of the object (Undefined when it has none).
NoObject == [message |-> Undefined, action |-> Undefined]

JsonObjects ==
    {[message |-> msg, action |-> act] :
        msg \in {Undefined, "", "Hello"}, act \in {Undefined, "", "chat", "present"}}

Content(kind, fenced, json, obj) ==
    [kind |-> kind, fenced |-> fenced, json |-> json, obj |-> obj]

Contents ==
    {Content("null", FALSE, "null", NoObject)}
        \cup {Content("string", FALSE, j, NoObject) : j \in {"garbage", "null"}}
        \cup {Content("string", FALSE, "object", obj) : obj \in JsonObjects}
        \cup {Content("string", TRUE, "garbage", NoObject),
              Content("string", TRUE, "object", [message |-> "Hello", action |-> "present"])}

NoContent == Content("null", FALSE, "null", NoObject)

FetchOutcomes ==
    {[net |-> "error", ok |-> FALSE, body |-> "invalid", content |-> NoContent]}
        \cup {[net |-> "response", ok |-> k, body |-> b, content |-> NoContent] :
                 k \in BOOLEAN, b \in {"invalid", "nochoices"}}
        \cup {[net |-> "response", ok |-> TRUE, body |-> "data", content |-> c] :
                 c \in Contents}

\* the result of a call that may throw
Returned(v) == [threw |-> FALSE, value |-> v]
Threw == [threw |-> TRUE, value |-> NoObject]

\* !v for the values of a message or an action
Falsy(v) == v \in {Undefined, ""}

\* LLMService.parseResponse(content)
ParseResponse(content) ==
    IF content.kind = "null" THEN Threw               \* content.replace on null
    ELSE IF content.json = "garbage" THEN Threw       \* JSON.parse throws
    ELSE IF content.json = "null" THEN Threw          \* parsed.message on null
    ELSE IF Falsy(content.obj.message) \/ Falsy(content.obj.action) THEN Threw
    ELSE Returned(content.obj)

\* the body of sendChat's try block for the fetch outcome o
Attempt(o) ==
    IF o.net = "error" THEN Threw
    ELSE IF ~o.ok THEN Threw
    ELSE IF o.body # "data" THEN Threw
    ELSE ParseResponse(o.content)

\* the object sendChat returns when its attempts are used up
Fallback == [message |-> "It seems we've encountered a temporary issue.",
             action |-> "redirect"]

\* no sendChat call was made yet
NoChat == [status |-> "idle", attempt |-> 0, requests |-> 0, result |-> NoObject,
           tried |-> <<>>]

\* sendChat(messages, projects, viewedProjectIds) up to its first await: the
\* first fetch is made.  History: requests counts the fetches made, tried
\* lists the outcomes they came to.
SendChat(ch) ==
    [status |-> "awaiting", attempt |-> 0, requests |-> 1, result |-> NoObject,
     tried |-> <<>>]

\* sendChat whose catch clause throws again when the attempts are used up
SendChatResumesRethrows(ch, o) ==
    LET r == Attempt(o)
        ch1 == [ch EXCEPT !.tried = Append(@, o)]
    IN  IF ~r.threw THEN [ch1 EXCEPT !.status = "returned", !.result = r.value]
        ELSE IF ch.attempt = maxAttempts - 1
        THEN [ch1 EXCEPT !.status = "rejected"]
        ELSE [ch1 EXCEPT !.attempt = @ + 1, !.requests = @ + 1]

\* sendChat that gives up after the first failed attempt
SendChatResumesNoRetry(ch, o) ==
    LET r == Attempt(o)
        ch1 == [ch EXCEPT !.tried = Append(@, o)]
    IN  IF ~r.threw THEN [ch1 EXCEPT !.status = "returned", !.result = r.value]
        ELSE [ch1 EXCEPT !.status = "returned", !.result = Fallback]

\* sendChat from the return of a fetch with outcome o to its next await or
\* its return
SendChatResumes(ch, o) ==
    LET r == Attempt(o)
        ch1 == [ch EXCEPT !.tried = Append(@, o)]
    IN  IF ~r.threw THEN [ch1 EXCEPT !.status = "returned", !.result = r.value]
        ELSE IF ch.attempt = maxAttempts - 1
        THEN [ch1 EXCEPT !.status = "returned", !.result = Fallback]
        ELSE \* the loop goes on: attempt++ and the next fetch
             [ch1 EXCEPT !.attempt = @ + 1, !.requests = @ + 1]

\* ------------------------------------- the eyes as drawn (faceManager.js)
\* The r attribute of the two eye circles between gsap's ticks.  Every
\* gsap.to of faceManager.js runs with gsap's default overwrite (none), so
\* tweens of the same attribute run side by side and each tick renders them
\* in the order of their start times: the one that started last is drawn.
\* r is in hundredths, time in ticks of TickMs milliseconds.
TickMs == 50
Ticks(ms) == (ms + TickMs - 1) \div TickMs
Eyes == {"leftEye", "rightEye"}
Radius(r) == 100 * r

\* the progress of an ease after k of d ticks, in thousandths: gsap's
\* default "power1.out", and the "back.out(1.7)" of the surprised eyes
EyeEase(ease, k, d) ==
    LET m == d - k
    IN  IF ease = "back.out"
        THEN 1000 - ((2702 * m * m * m) \div (d * d * d))
                  + ((1702 * m * m) \div (d * d))
        ELSE 1000 - ((1000 * m * m) \div (d * d))

\* what a tween draws after k of its d ticks
DrawnAt(from, to, ease, k, d) ==
    IF k >= d THEN to ELSE from + (((to - from) * EyeEase(ease, k, d)) \div 1000)

\* gsap.to(els, {attr: {r: to}, duration, delay, ease}); from is read at the
\* tween's first render
Tween(els, to, ms, delayMs, ease) ==
    [els |-> els, to |-> to, delay |-> Ticks(delayMs), dur |-> Ticks(ms),
     done |-> 0, ease |-> ease, from |-> [el \in Eyes |-> 0]]

\* the eye circles as created (r = 8), no tween running; history: blinks
\* holds the blink() calls not yet swept, calls and autoBlinks count calls
NewEyes ==
    [currentExpression |-> "neutral",
     shown |-> [el \in Eyes |-> Radius(defaultRadius)],
     tweens |-> <<>>, delayed |-> <<>>, blinks |-> <<>>,
     calls |-> 0, autoBlinks |-> 0]

\* a tween joins gsap's global timeline after those that start no later
RECURSIVE InsertTween(_, _)
InsertTween(q, tw) ==
    IF q = <<>> THEN <<tw>>
    ELSE IF Head(q).delay <= tw.delay THEN <<Head(q)>> \o InsertTween(Tail(q), tw)
    ELSE <<tw>> \o q

\* history: an eye tween starts, so the blinks in progress are no longer alone
Disturb(e) ==
    [e EXCEPT !.blinks = [i \in 1..Len(@) |->
                              IF @[i].left > 0 THEN [@[i] EXCEPT !.disturbed = TRUE]
                              ELSE @[i]]]

\* history: the blinks that completed before this step are forgotten
RECURSIVE InProgress(_)
InProgress(bs) ==
    IF bs = <<>> THEN <<>>
    ELSE IF Head(bs).left = 0 THEN InProgress(Tail(bs))
    ELSE <<Head(bs)>> \o InProgress(Tail(bs))

Sweep(e) == [e EXCEPT !.blinks = InProgress(@)]

GsapTo(e, tw) == [e EXCEPT !.tweens = InsertTween(@, tw)]

\* setNeutralExpression(), the eyes
SetNeutralEyes(e) ==
    GsapTo(GsapTo(e, Tween({"leftEye"}, Radius(8), 300, 0, "power1.out")),
           Tween({"rightEye"}, Radius(8), 300, 0, "power1.out"))

\* setHappyExpression(), the eyes
SetHappyEyes(e) == GsapTo(e, Tween(Eyes, Radius(6), 300, 0, "power1.out"))

\* setSurprisedExpression(), the eyes
SetSurprisedEyes(e) == GsapTo(e, Tween(Eyes, Radius(12), 300, 0, "back.out"))

\* setWinkExpression(): gsap.delayedCall(0.5, ...) reopens the left eye
SetWinkEyes(e) ==
    [GsapTo(GsapTo(e, Tween({"leftEye"}, Radius(0), 200, 0, "power1.out")),
            Tween({"rightEye"}, Radius(8), 200, 0, "power1.out"))
        EXCEPT !.delayed = Append(@, Ticks(500))]

\* a blink that opens the eyes to the default radius whatever it read
CurrentRadiusDefault(e) == Radius(defaultRadius)

\* the r blink() reads: parseFloat(leftEye.getAttribute('r')) || 8
CurrentRadius(e) ==
    IF e.shown.leftEye = 0 THEN Radius(defaultRadius) ELSE e.shown.leftEye

\* blink(); history: seen is the left eye's r at the call, left the ticks
\* until the reopening tween has run
BlinkEyes(e) ==
    LET d == Disturb(e)
        closed == GsapTo(d, Tween(Eyes, Radius(0), 100, 0, "power1.out"))
        opened == GsapTo(closed, Tween(Eyes, CurrentRadius(e), 100, 100, "power1.out"))
    IN  [opened EXCEPT !.blinks = Append(@, [seen |-> e.shown.leftEye,
                                             left |-> Ticks(100) + Ticks(100),
                                             disturbed |-> FALSE])]

\* setExpression(type), the eyes
SetExpressionEyes(e, type) ==
    IF e.currentExpression = type THEN e
    ELSE LET g == [e EXCEPT !.currentExpression = type]
         IN  CASE type = "neutral" -> SetNeutralEyes(Disturb(g))
               [] type = "happy" -> SetHappyEyes(Disturb(g))
               [] type = "surprised" -> SetSurprisedEyes(Disturb(g))
               [] type = "wink" -> SetWinkEyes(Disturb(g))
               [] type = "blink" -> BlinkEyes(g)
               [] OTHER -> SetNeutralEyes(Disturb(g))

\* the callback startAutoBlink gives to setInterval, the eyes
AutoBlinkEyes(e) == IF e.currentExpression = "neutral" THEN BlinkEyes(e) ELSE e

\* one tick of gsap's ticker over the tweens in timeline order: a tween still
\* delayed waits, a running one draws its elements and leaves when it is over
RECURSIVE Render(_, _, _)
Render(shown, q, kept) ==
    IF q = <<>> THEN [shown |-> shown, tweens |-> kept]
    ELSE LET tw == Head(q)
             from == IF tw.done = 0 THEN shown ELSE tw.from
             k == tw.done + 1
             drawn == [el \in Eyes |->
                          IF el \in tw.els
                          THEN DrawnAt(from[el], tw.to, tw.ease, k, tw.dur)
                          ELSE shown[el]]
         IN  IF tw.delay > 0
             THEN Render(shown, Tail(q), Append(kept, [tw EXCEPT !.delay = @ - 1]))
             ELSE IF k >= tw.dur
             THEN Render(drawn, Tail(q), kept)
             ELSE Render(drawn, Tail(q),
                         Append(kept, [tw EXCEPT !.done = k, !.from = from]))

\* the delayed calls of setWinkExpression that come due on this tick
Due(e) == {i \in 1..Len(e.delayed) : e.delayed[i] <= 1}

RECURSIVE Waiting(_)
Waiting(ds) ==
    IF ds = <<>> THEN <<>>
    ELSE IF Head(ds) <= 1 THEN Waiting(Tail(ds))
    ELSE <<Head(ds) - 1>> \o Waiting(Tail(ds))

\* the callback of setWinkExpression's delayedCall, once per call come due
RECURSIVE WinkReopensEyes(_, _)
WinkReopensEyes(e, n) ==
    IF n = 0 THEN e
    ELSE WinkReopensEyes(
             GsapTo(Disturb(e), Tween({"leftEye"}, Radius(8), 200, 0, "power1.out")),
             n - 1)

\* gsap's ticker: the tweens render, then the delayed calls that are due run
GsapTick(e) ==
    LET r == Render(e.shown, e.tweens, <<>>)
        t == [e EXCEPT !.shown = r.shown, !.tweens = r.tweens,
                       !.delayed = Waiting(@),
                       !.blinks = [i \in 1..Len(@) |-> [@[i] EXCEPT !.left = @ - 1]]]
    IN  WinkReopensEyes(t, Cardinality(Due(e)))

\* ---------------------------------------------- the program's state record
\* The methods below are operators from a record of the program's state to
\* the record after the call, so that a handler is the composition of the
\* calls it makes.  State is the record of the current state; Commit(s)
\* makes s the next state.
State ==
    [width |-> width, height |-> height, blobs |-> blobs, rng |-> rng,
     field |-> field, smoothed |-> smoothed, faceTarget |-> faceTarget,
     placements |-> placements, isPaused |-> isPaused,
     animationFrameId |-> animationFrameId, scale |-> scale, now |-> now,
     nextHandle |-> nextHandle, rafQueue |-> rafQueue, trans |-> trans,
     timers |-> timers, isEmbedded |-> isEmbedded,
     embeddedActive |-> embeddedActive, aboutOpens |-> aboutOpens,
     aboutOpen |-> aboutOpen,
     frameRuns |-> frameRuns, cancelCount |-> cancelCount,
     pauseStreak |-> pauseStreak, resumeStreak |-> resumeStreak,
     face |-> face, mouse |-> mouse, callArgs |-> callArgs,
     frameSteps |-> frameSteps, faults |-> faults, net |-> net, tts |-> tts,
     chat |-> chat, eyes |-> eyes]

Commit(s) ==
    /\ width' = s.width /\ height' = s.height /\ blobs' = s.blobs /\ rng' = s.rng
    /\ field' = s.field /\ smoothed' = s.smoothed /\ faceTarget' = s.faceTarget
    /\ placements' = s.placements /\ isPaused' = s.isPaused
    /\ animationFrameId' = s.animationFrameId /\ scale' = s.scale /\ now' = s.now
    /\ nextHandle' = s.nextHandle /\ rafQueue' = s.rafQueue /\ trans' = s.trans
    /\ timers' = s.timers /\ isEmbedded' = s.isEmbedded
    /\ embeddedActive' = s.embeddedActive /\ aboutOpens' = s.aboutOpens
    /\ aboutOpen' = s.aboutOpen
    /\ frameRuns' = s.frameRuns /\ cancelCount' = s.cancelCount
    /\ pauseStreak' = s.pauseStreak /\ resumeStreak' = s.resumeStreak
    /\ face' = s.face /\ mouse' = s.mouse /\ callArgs' = s.callArgs
    /\ frameSteps' = s.frameSteps /\ faults' = s.faults /\ net' = s.net
    /\ tts' = s.tts /\ chat' = s.chat /\ eyes' = s.eyes

\* requestAnimationFrame(cb): the callback joins the list of the next frame
\* and gets the next handle
RequestAnimationFrame(s, cb) ==
    [s EXCEPT !.rafQueue = Append(@, [cb EXCEPT !.id = s.nextHandle]),
              !.nextHandle = @ + 1]

\* cancelAnimationFrame(h)
CancelAnimationFrame(s, h) ==
    [s EXCEPT !.rafQueue = SelectSeq(@, LAMBDA cb : cb.id # h),
              !.cancelCount = @ + 1]

\* ------------------------------------------------------- frame scheduler
\* animate() that renders before it updates
AnimateRenderFirst(s) ==
    IF s.isPaused THEN s
    ELSE LET s1 == [RequestAnimationFrame(NoSteps(s), AnimateCb(0))
                        EXCEPT !.animationFrameId = s.nextHandle]
             s2 == Step([s1 EXCEPT !.frameRuns = @ + 1], "render")
         IN  UpdateBlobsOf(s2, s2.now)

\* SceneManager.animate()
Animate(s) ==
    IF s.isPaused THEN s
    ELSE LET s1 == [RequestAnimationFrame(NoSteps(s), AnimateCb(0))
                        EXCEPT !.animationFrameId = s.nextHandle]
             s2 == UpdateBlobsOf(s1, s1.now)
         IN  \* bgMesh uniform and renderer.render(scene, camera)
             Step([s2 EXCEPT !.frameRuns = @ + 1], "render")

\* The places of updateBlobs an exception may come from: the forEach loop
\* before a body is written, effect.update(), and calculateMassCenter before
\* it writes the smoothed point.
FailurePoints == {"integrate", "field", "project"}

\* what updateBlobs has done when an exception leaves it at the point at
UpdateBlobsUntil(s, time, at) ==
    LET bs == UpdateBlobs(s.blobs, time, s.rng)
        s1 == Step([s EXCEPT !.blobs = bs,
                             !.rng = RngAt(s.rng, 2 * Len(s.blobs))], "integrate")
        s2 == Step([s1 EXCEPT !.field = FieldOf(bs)], "field")
    IN  CASE at = "integrate" -> s
          [] at = "field" -> s1
          [] OTHER -> s2

\* animate() that asks for the next frame after rendering, when its update
\* throws
AnimateThrowsLate(s, at) ==
    IF s.isPaused THEN s
    ELSE Step([UpdateBlobsUntil(NoSteps(s), s.now, at) EXCEPT !.faults = @ + 1],
              "throw")

\* animate() when its update throws at the point at: the exception leaves
\* animate, the statements after updateBlobs are not reached
AnimateThrows(s, at) ==
    IF s.isPaused THEN s
    ELSE LET s1 == [RequestAnimationFrame(NoSteps(s), AnimateCb(0))
                        EXCEPT !.animationFrameId = s.nextHandle]
         IN  Step([UpdateBlobsUntil(s1, s1.now, at) EXCEPT !.faults = @ + 1],
                  "throw")

\* pause() that forgets to cancel the requested frame
PauseNoCancel(s) == [s EXCEPT !.isPaused = TRUE, !.pauseStreak = Min(@ + 1, 2)]

\* pause() that cancels without looking at the handle
PauseAlwaysCancel(s) ==
    [CancelAnimationFrame([s EXCEPT !.isPaused = TRUE, !.pauseStreak = Min(@ + 1, 2)],
                          s.animationFrameId)
        EXCEPT !.animationFrameId = NullHandle]

\* SceneManager.pause()
Pause(s) ==
    LET s1 == [s EXCEPT !.isPaused = TRUE, !.pauseStreak = Min(@ + 1, 2)]
    IN  IF s1.animationFrameId # NullHandle
        THEN [CancelAnimationFrame(s1, s1.animationFrameId)
                  EXCEPT !.animationFrameId = NullHandle]
        ELSE s1

\* resume() that restarts the loop without looking at isPaused
ResumeUnguarded(s) ==
    Animate([s EXCEPT !.resumeStreak = s.pauseStreak, !.pauseStreak = 0,
                      !.isPaused = FALSE])

\* resume() that first integrates the bodies once for the time spent paused
ResumeCatchesUp(s) ==
    LET s0 == [s EXCEPT !.resumeStreak = s.pauseStreak, !.pauseStreak = 0]
    IN  IF s0.isPaused
        THEN Animate([s0 EXCEPT !.isPaused = FALSE,
                                !.blobs = UpdateBlobs(s0.blobs, s0.now, s0.rng)])
        ELSE s0

\* SceneManager.resume()
Resume(s) ==
    LET s0 == [s EXCEPT !.resumeStreak = s.pauseStreak, !.pauseStreak = 0]
    IN  IF s0.isPaused THEN Animate([s0 EXCEPT !.isPaused = FALSE]) ELSE s0

\* onResize() that resets the smoothed point before it stores the new size
OnResizeStaleCentre(s, w, h) ==
    [s EXCEPT !.width = w, !.height = h,
              !.smoothed = <<s.width \div 2, s.height \div 2>>]

\* onResize() without the reset of the smoothed point
OnResizeNoReset(s, w, h) == [s EXCEPT !.width = w, !.height = h]

\* SceneManager.onResize() with window.innerWidth = w, innerHeight = h
OnResize(s, w, h) ==
    [s EXCEPT !.width = w, !.height = h, !.smoothed = <<w \div 2, h \div 2>>]

\* ------------------------------------------------- transition controller
\* The onComplete closures App passes: "enter" is the one of
\* enterEmbeddedMode, "exit" the one of exitEmbeddedMode, "none" is null.
OnComplete(s, cb) ==
    IF cb = "enter"
    THEN [s EXCEPT !.embeddedActive = TRUE, !.timers = AddTimer(@, "embedPause", s.now)]
    ELSE IF cb = "exit"
    THEN [s EXCEPT !.embeddedActive = FALSE]
    ELSE s

\* a closure that calls onComplete after the branch instead of in its else
TransitionSampleNoElse(s, tid) ==
    LET t == s.trans[tid]
        progress == Progress(s.now, t.startTime)
        s1 == [s EXCEPT !.scale = LerpVectors(t.startScale, t.targetScale, Ease(progress)),
                        !.trans[tid].samples = @ + 1,
                        !.trans[tid].staleWrite = @ \/ t.superseded]
        s2 == IF progress < DurationTicks
              THEN RequestAnimationFrame(s1, TransCb(0, tid))
              ELSE s1
    IN  OnComplete([s2 EXCEPT !.trans[tid].completed = Min(@ + 1, 2),
                              !.trans[tid].completedAt = s.now,
                              !.trans[tid].doneScale = s1.scale,
                              !.trans[tid].lateComplete = @ \/ t.superseded],
                   t.onComplete)

\* one run of the closure animateExpansion / animateReset of transition tid
\* (the two differ in their target only)
TransitionSample(s, tid) ==
    LET t == s.trans[tid]
        progress == Progress(s.now, t.startTime)
        s1 == [s EXCEPT !.scale = LerpVectors(t.startScale, t.targetScale, Ease(progress)),
                        !.trans[tid].samples = @ + 1,
                        !.trans[tid].staleWrite = @ \/ t.superseded]
    IN  IF progress < DurationTicks
        THEN RequestAnimationFrame(s1, TransCb(0, tid))
        ELSE OnComplete([s1 EXCEPT !.trans[tid].completed = @ + 1,
                                   !.trans[tid].completedAt = s.now,
                                   !.trans[tid].doneScale = s1.scale,
                                   !.trans[tid].lateComplete = @ \/ t.superseded],
                        t.onComplete)

\* the closure record made by a call of expandBlob/resetBlob.  The fields
\* after onComplete are history: how often it sampled and completed, when,
\* the scale its completing sample left, whether a later transition was
\* started while it was in flight, and whether it wrote the scale or
\* completed after that.
NewTransition(s, kind, target, cb) ==
    [kind |-> kind, startScale |-> s.scale, targetScale |-> target,
     startTime |-> s.now, onComplete |-> cb,
     samples |-> 0, completed |-> 0, completedAt |-> -1, doneScale |-> <<>>,
     superseded |-> FALSE, staleWrite |-> FALSE, lateComplete |-> FALSE]

\* tid has a callback waiting in the list q of frame callbacks
Pending(q, tid) == \E i \in 1..Len(q) : q[i].fn = "transition" /\ q[i].tid = tid

\* common part of expandBlob and resetBlob: make the closure and call it
StartTransition(s, kind, target, cb) ==
    LET inFlight(i) == Pending(s.rafQueue, i)
        old == [i \in 1..Len(s.trans) |->
                   [s.trans[i] EXCEPT !.superseded = @ \/ inFlight(i)]]
        s1 == [s EXCEPT !.trans = Append(old, NewTransition(s, kind, target, cb))]
    IN  TransitionSample(s1, Len(s1.trans))

\* SceneManager.expandBlob(onComplete)
ExpandBlob(s, cb) == StartTransition(s, "expand", ExpandTarget, cb)

\* SceneManager.resetBlob(onComplete)
ResetBlob(s, cb) == StartTransition(s, "reset", ResetTarget, cb)

\* -------------------------------------------------------------- App
\* enterEmbeddedMode that reveals the embedded layer and arms the pause at
\* once, and then expands
EnterEmbeddedModeEager(s) ==
    ExpandBlob(OnComplete([s EXCEPT !.isEmbedded = TRUE], "enter"), "none")

\* App.enterEmbeddedMode(url, projectId), as far as it reaches the core
EnterEmbeddedMode(s) == ExpandBlob([s EXCEPT !.isEmbedded = TRUE], "enter")

\* App.exitEmbeddedMode()
ExitEmbeddedMode(s) == ResetBlob(Resume([s EXCEPT !.isEmbedded = FALSE]), "exit")

\* App.openAboutOverlay()
OpenAboutOverlay(s) ==
    [s EXCEPT !.timers = AddTimer(@, "aboutPause", s.now), !.aboutOpens = @ + 1,
              !.aboutOpen = TRUE]

\* App.closeAboutOverlay()
CloseAboutOverlay(s) == [Resume(s) EXCEPT !.aboutOpen = FALSE]

\* the setTimeout callbacks of App that reach the core: both kinds call
\* sceneManager.pause()
TimerCallback(s, k) == Pause(s)

\* SceneManager.setFaceTalking(isTalking)
SetFaceTalking(s, isTalking) ==
    IF isTalking THEN [s EXCEPT !.face = StartTalkingAnimation(@)]
    ELSE [s EXCEPT !.face = StopTalkingAnimation(@)]

\* ------------------------------------------------------ speech (audio.js)
\* The record s.tts: currentAudio is the speak() call whose Audio element
\* this.currentAudio holds (0 = null), speechSynthesis tells whether the
\* browser has the Web Speech API, isTTSActive is App.isTTSActive, and calls
\* has one record per speak() call, in call order:
\*   fetching  the call waits for the proxy's response;
\*   audio     its Audio element: "none", "pending" (play() called, its
\*             promise pending), "aborted" (paused while pending, the
\*             promise about to reject), "playing", "paused", "ended",
\*             "failed";
\*   utter     its utterance: "none", "queued", "speaking", "cancelling"
\*             (removed by speechSynthesis.cancel(), its error event due),
\*             "ended", "failed";
\*   history: starts and ends count the calls of its onStart and onEnd,
\*   cancelled tells that a cancelSpeech() not made by the call itself
\*   returned after the call was issued, lateStart that its onStart ran and
\*   latePlay that its audio or utterance was started after that.
NewPlayback(supported) ==
    [currentAudio |-> 0, speechSynthesis |-> supported, isTTSActive |-> FALSE,
     calls |-> <<>>]

NewCall ==
    [fetching |-> TRUE, audio |-> "none", utter |-> "none", starts |-> 0, ends |-> 0,
     cancelled |-> FALSE, lateStart |-> FALSE, latePlay |-> FALSE]

\* App.setTTSActive(active)
SetTTSActive(s, active) == SetFaceTalking([s EXCEPT !.tts.isTTSActive = active], active)

\* the onStart closure handleLlmResponse passes to speak(), for call c
OnStart(s, c) ==
    SetTTSActive([s EXCEPT !.tts.calls[c].starts = @ + 1,
                           !.tts.calls[c].lateStart = @ \/ s.tts.calls[c].cancelled],
                 TRUE)

\* the onEnd closure handleLlmResponse passes to speak(), for call c, up to
\* the action it takes (redirect or present)
OnEnd(s, c) == SetTTSActive([s EXCEPT !.tts.calls[c].ends = @ + 1], FALSE)

\* AudioService.cancelSpeech(); by is the speak() call that makes it, 0 when
\* it is called from App
CancelSpeech(s, by) ==
    LET cur == s.tts.currentAudio
        paused(a) == IF a = "pending" THEN "aborted"
                     ELSE IF a = "playing" THEN "paused" ELSE a
        removed(u) == IF s.tts.speechSynthesis /\ u \in {"queued", "speaking"}
                      THEN "cancelling" ELSE u
    IN  [s EXCEPT !.tts.currentAudio = 0,
                  !.tts.calls = [c \in 1..Len(@) |->
                      [@[c] EXCEPT !.audio = IF c = cur THEN paused(@) ELSE @,
                                   !.utter = removed(@),
                                   !.cancelled = @ \/ c # by]]]

\* speakWithWebSpeechAPI(text, onStart, onEnd) of call c
SpeakWithWebSpeechAPI(s, c) ==
    LET s1 == CancelSpeech(s, c)
    IN  IF ~s1.tts.speechSynthesis THEN OnEnd(s1, c)
        ELSE [s1 EXCEPT !.tts.calls[c].utter = "queued",
                        !.tts.calls[c].latePlay = @ \/ s1.tts.calls[c].cancelled]

\* speak() of call c from the return of its fetch to its next await: with
\* outcome "audio" the response is decoded, the element is made and play()
\* is called, which fires the element's play event; with "blocked" play()
\* rejects at once; with "failure" the fetch, the status or the decoding
\* throws.  The last two end in the catch clause.
SpeakResumes(s, c, outcome) ==
    LET s1 == [s EXCEPT !.tts.calls[c].fetching = FALSE]
    IN  IF outcome = "audio"
        THEN OnStart([s1 EXCEPT !.tts.currentAudio = c,
                                !.tts.calls[c].audio = "pending",
                                !.tts.calls[c].latePlay = @ \/ s1.tts.calls[c].cancelled],
                     c)
        ELSE IF outcome = "blocked"
        THEN SpeakWithWebSpeechAPI([s1 EXCEPT !.tts.currentAudio = c,
                                              !.tts.calls[c].audio = "paused"], c)
        ELSE SpeakWithWebSpeechAPI(s1, c)

\* speak(text, onStart, onEnd) up to its first await
Speak(s) ==
    LET s1 == CancelSpeech(s, Len(s.tts.calls) + 1)
    IN  [s1 EXCEPT !.tts.calls = Append(@, NewCall)]

\* the onended / onerror handlers of call c's element
AudioOver(s, c, how) ==
    OnEnd([s EXCEPT !.tts.currentAudio = 0, !.tts.calls[c].audio = how], c)

\* the element of call c cannot play its source: the error event is fired
\* and the promise of play() is rejected, which resumes speak() in its catch
AudioFails(s, c) == SpeakWithWebSpeechAPI(AudioOver(s, c, "failed"), c)

\* the promise of play() is rejected because the element was paused
PlayAborted(s, c) == SpeakWithWebSpeechAPI([s EXCEPT !.tts.calls[c].audio = "paused"], c)

\* the handlers of call c's utterance: onstart, and onend / onerror
UtteranceStarts(s, c) == OnStart([s EXCEPT !.tts.calls[c].utter = "speaking"], c)
UtteranceOver(s, c, how) == OnEnd([s EXCEPT !.tts.calls[c].utter = how], c)

\* the input listeners of App.initListeners: the user types
OnInput(s) == SetTTSActive(CancelSpeech(s, 0), FALSE)

\* SceneManager.onMouseMove(event): the pointer in normalized device
\* coordinates, thousandths, handed on to the face
OnMouseMove(s, clientX, clientY) ==
    LET x == Plus(Scaled(Quotient(clientX, s.width), 2, 1), -1000)
        y == Plus(Scaled(Neg(Quotient(clientY, s.height)), 2, 1), 1000)
    IN  [s EXCEPT !.mouse = <<x, y>>, !.face = UpdateMousePosition(@, x, y)]

\* the point (x, y) of two JavaScript numbers, finite when both are
ScreenPoint(x, y) ==
    [finite |-> IsFinite(x) /\ IsFinite(y), x |-> x.v, y |-> y.v]

\* ------------------------------------------------------------- the machine
Viewports == {<<80000, 60000>>, <<40000, 40000>>, <<0, 60000>>}
InitialViewport == <<80000, 60000>>

\* the program's state when SceneManager's constructor reaches animate(),
\* for a window of size vp, blobs bs and a generator in state r
Constructed(vp, bs, r, sc) ==
    [width |-> vp[1], height |-> vp[2], blobs |-> bs, rng |-> r, field |-> <<>>,
     smoothed |-> <<vp[1] \div 2, vp[2] \div 2>>,
     faceTarget |-> <<0, 0>>, placements |-> 0, isPaused |-> FALSE,
     animationFrameId |-> NullHandle, scale |-> sc, now |-> 0,
     nextHandle |-> 1, rafQueue |-> <<>>, trans |-> <<>>,
     timers |-> [k \in TimerKinds |-> <<>>], isEmbedded |-> FALSE,
     embeddedActive |-> FALSE, aboutOpens |-> 0, aboutOpen |-> FALSE,
     frameRuns |-> 0, cancelCount |-> 0, pauseStreak |-> 0, resumeStreak |-> 0,
     face |-> FaceInit, mouse |-> <<Num(0), Num(0)>>, callArgs |-> <<>>,
     frameSteps |-> <<>>, faults |-> 0,
     net |-> NewAudioService(NewLLMService(NewServices(DeployedEnv))),
     tts |-> NewPlayback(TRUE), chat |-> NoChat, eyes |-> NewEyes]

\* the variables hold the record s
Holds(s) ==
    /\ width = s.width /\ height = s.height /\ blobs = s.blobs /\ rng = s.rng
    /\ field = s.field /\ smoothed = s.smoothed /\ faceTarget = s.faceTarget
    /\ placements = s.placements /\ isPaused = s.isPaused
    /\ animationFrameId = s.animationFrameId /\ scale = s.scale /\ now = s.now
    /\ nextHandle = s.nextHandle /\ rafQueue = s.rafQueue /\ trans = s.trans
    /\ timers = s.timers /\ isEmbedded = s.isEmbedded
    /\ embeddedActive = s.embeddedActive /\ aboutOpens = s.aboutOpens
    /\ aboutOpen = s.aboutOpen
    /\ frameRuns = s.frameRuns /\ cancelCount = s.cancelCount
    /\ pauseStreak = s.pauseStreak /\ resumeStreak = s.resumeStreak
    /\ face = s.face /\ mouse = s.mouse /\ callArgs = s.callArgs
    /\ frameSteps = s.frameSteps /\ faults = s.faults /\ net = s.net
    /\ tts = s.tts /\ chat = s.chat /\ eyes = s.eyes

\* the state after new App(): the SceneManager constructor has made the
\* blobs and run animate() once, synchronously
Init ==
    /\ Holds(Animate(Constructed(InitialViewport, InitBlobs(Seed),
                                 RngAt(Seed, 5 * NumBlobs), InitialScale)))
    /\ frameQueue = <<>>
    /\ lastOp = "init"

\* a task runs only between frames
Idle == frameQueue = <<>>

\* the browser starts a frame: the requested callbacks become the frame's
\* list, and the clock has advanced
BeginFrame ==
    \E dt \in 1..MaxDt :
        /\ Idle /\ rafQueue # <<>> /\ now + dt <= MaxTime
        /\ Commit([State EXCEPT !.rafQueue = <<>>, !.now = now + dt])
        /\ frameQueue' = rafQueue
        /\ lastOp' = "frame"

\* the frame runs its next callback
RunCallback ==
    /\ frameQueue # <<>>
    /\ LET cb == Head(frameQueue)
       IN  IF cb.fn = "animate"
           THEN Commit(Animate(State)) /\ lastOp' = "animate"
           ELSE Commit(TransitionSample(State, cb.tid)) /\ lastOp' = "transition"
    /\ frameQueue' = Tail(frameQueue)

\* time passes with no frame requested
TimePasses ==
    /\ Idle /\ rafQueue = <<>> /\ now < MaxTime
    /\ Commit([State EXCEPT !.now = now + 1])
    /\ UNCHANGED frameQueue
    /\ lastOp' = "wait"

\* a timer of App that is due fires
TimerFires ==
    \E k \in TimerKinds :
        /\ Idle /\ timers[k] # <<>> /\ Head(timers[k]) <= now
        /\ Commit(TimerCallback([State EXCEPT !.timers[k] = Tail(@)], k))
        /\ UNCHANGED frameQueue
        /\ lastOp' = "pause"

\* the response handler presents a project (handleLlmResponse, when not
\* embedded)
EnterEmbedded ==
    /\ Idle /\ ~isEmbedded
    /\ Len(trans) < MaxTransitions /\ now + DurationTicks <= MaxTime
    /\ Commit(EnterEmbeddedMode(State))
    /\ UNCHANGED frameQueue
    /\ lastOp' = "expand"

\* click on the close button
ExitEmbedded ==
    /\ Idle
    /\ Len(trans) < MaxTransitions /\ now + DurationTicks <= MaxTime
    /\ Commit(ExitEmbeddedMode(State))
    /\ UNCHANGED frameQueue
    /\ lastOp' = "reset"

\* click on the about button
OpenAbout ==
    /\ Idle /\ aboutOpens < MaxAboutOpens
    /\ Commit(OpenAboutOverlay(State))
    /\ UNCHANGED frameQueue
    /\ lastOp' = "open"

\* click on the about overlay's close button
CloseAbout ==
    /\ Idle
    /\ Commit(CloseAboutOverlay(State))
    /\ UNCHANGED frameQueue
    /\ lastOp' = "resume"

\* the window is resized
Resize ==
    \E v \in Viewports :
        /\ Idle
        /\ Commit(OnResize(State, v[1], v[2]))
        /\ UNCHANGED frameQueue
        /\ lastOp' = "resize"

\* the frame runs its animate callback and the update throws
FrameThrows ==
    \E at \in FailurePoints :
        /\ frameQueue # <<>> /\ Head(frameQueue).fn = "animate"
        /\ faults < MaxFaults
        /\ Commit(AnimateThrows(State, at))
        /\ frameQueue' = Tail(frameQueue)
        /\ lastOp' = "throw"

\* The frame scheduler with the transitions, in a window that keeps its size
Next ==
    \/ BeginFrame \/ RunCallback \/ TimePasses \/ TimerFires
    \/ EnterEmbedded \/ ExitEmbedded \/ OpenAbout \/ CloseAbout

Spec == Init /\ [][Next]_vars

\* the head of the frame's list is taken: what every RunCallback step, and
\* no other step, does to frameQueue
CallbackTaken == frameQueue # <<>> /\ frameQueue' = Tail(frameQueue)

\* The browser runs a frame whenever callbacks are requested, and a frame
\* runs all its callbacks.
FairSpec == Spec /\ WF_vars(BeginFrame) /\ WF_frameQueue(CallbackTaken)

\* The frame scheduler in a window that is resized, with no transition
ViewNext ==
    \/ BeginFrame \/ RunCallback \/ TimePasses \/ TimerFires
    \/ OpenAbout \/ CloseAbout \/ Resize

ViewSpec == Init /\ [][ViewNext]_vars

\* The frame scheduler with frames whose update may throw
FaultNext ==
    \/ BeginFrame \/ RunCallback \/ FrameThrows \/ TimePasses \/ TimerFires
    \/ OpenAbout \/ CloseAbout

FaultSpec == Init /\ [][FaultNext]_vars

\* ------------------------------------------- the projector on given inputs
\* calculateMassCenter as a function of the blobs, the scale and the window:
\* the inputs are enumerated, the blobs within the ranges of initObjects and
\* also with strength 0 (the degenerate configuration no initObjects makes),
\* the scale at rest and expanded.
BlobInputs ==
    {[pos |-> <<p[1], p[2], 0>>, vel |-> <<0, 0, 0>>, strength |-> m, subtract |-> 10,
      steps |-> 0] :
        p \in {<<0, 0>>, <<2400, 2400>>, <<2400, -1000>>}, m \in {0, 500}}

ProjInit ==
    \E bs \in [1..NumBlobs -> BlobInputs], vp \in Viewports,
       sc \in {InitialScale, ExpandTarget} :
        /\ Holds(Constructed(vp, bs, 0, sc))
        /\ frameQueue = <<>>
        /\ lastOp = "init"

\* one call of calculateMassCenter()
ProjectorFrame ==
    /\ placements < MaxPlacements
    /\ Commit(CalculateMassCenter(NoSteps(State)))
    /\ UNCHANGED frameQueue
    /\ lastOp' = "project"

ProjNext == ProjectorFrame \/ Resize

ProjSpec == ProjInit /\ [][ProjNext]_vars

\* ------------------------------------------- the smoothing on given inputs
\* The exponential smoothing of calculateMassCenter run from the smoothed
\* point (0, 0) in a window that keeps its size, on enumerated bodies; in the
\* window of 1000 x 1000 px bodies around the origin give the target
\* (500, 500).
SmoothViewports == {<<100000, 100000>>, <<80000, 60000>>}

SmoothInit ==
    \E bs \in [1..NumBlobs -> BlobInputs], vp \in SmoothViewports,
       sc \in {InitialScale, ExpandTarget} :
        /\ Holds([Constructed(vp, bs, 0, sc) EXCEPT !.smoothed = <<0, 0>>])
        /\ frameQueue = <<>>
        /\ lastOp = "init"

\* one call of calculateMassCenter()
SmoothFrame ==
    /\ placements < MaxSmoothFrames
    /\ Commit(CalculateMassCenter(NoSteps(State)))
    /\ UNCHANGED frameQueue
    /\ lastOp' = "project"

SmoothNext == SmoothFrame

SmoothSpec == SmoothInit /\ [][SmoothNext]_vars

\* ------------------------------------------ the face's expressions and talk
\* The public calls of the FaceManager that change the face's shape, made in
\* any order with any argument, with its interval timer, its delayed tweens
\* and its talking timeline running in between.
FaceStart ==
    /\ Holds(Constructed(InitialViewport, InitBlobs(Seed),
                         RngAt(Seed, 5 * NumBlobs), InitialScale))
    /\ frameQueue = <<>>
    /\ lastOp = "init"

\* the state s is the next one, if its delayed tweens are within the bound
CommitFace(s, op) ==
    /\ Len(s.face.delayed) <= MaxDelayed
    /\ Commit(s)
    /\ UNCHANGED frameQueue
    /\ lastOp' = op

\* faceManager.setExpression(t)
CallSetExpression ==
    \E t \in Expressions :
        CommitFace([State EXCEPT !.face = SetExpression(Called(@), t),
                                 !.callArgs = <<t>>], "setExpression")

\* the interval timer of startAutoBlink fires
AutoBlinkFires ==
    /\ face.blinkInterval # 0
    /\ CommitFace([State EXCEPT !.face = AutoBlinkCallback(Called(@)),
                                !.callArgs = <<>>], "autoBlink")

\* a delayed tween or call comes due; those of blink and wink have different
\* delays, so they come due in any order
DelayedFires ==
    \E i \in 1..Len(face.delayed) :
        CommitFace([State EXCEPT
            !.face = [Fire(Called(@), @.delayed[i]) EXCEPT
                         !.delayed = RemoveAt(@, i)],
            !.callArgs = <<>>], "delayed")

\* sceneManager.setFaceTalking(isTalking), as App.setTTSActive calls it
CallSetFaceTalking ==
    \E isTalking \in BOOLEAN :
        CommitFace([SetFaceTalking([State EXCEPT !.face = Called(@)], isTalking)
                        EXCEPT !.callArgs = <<isTalking>>],
                   IF isTalking THEN "startTalking" ELSE "stopTalking")

\* the talking timeline, while alive, starts its next tween
TalkingTick ==
    /\ face.liveLoops > 0
    /\ CommitFace([State EXCEPT !.face = TalkingStep(Called(@)),
                                !.callArgs = <<>>], "talkingTick")

FaceNext ==
    \/ CallSetExpression \/ AutoBlinkFires \/ DelayedFires
    \/ CallSetFaceTalking \/ TalkingTick

FaceSpec == FaceStart /\ [][FaceNext]_vars

\* the reopening of a winked eye comes due: the DelayedFires steps of the
\* entries setWinkExpression made, as they change the face
WinkReopens ==
    \E i \in 1..Len(face.delayed) :
        /\ face.delayed[i].of = "wink"
        /\ face' = [Fire(Called(face), face.delayed[i]) EXCEPT
                        !.delayed = RemoveAt(@, i)]

\* gsap runs every delayed call when its delay is over
FaceFairSpec == FaceSpec /\ WF_face(WinkReopens)

\* faceManager.destroy()
CallDestroy ==
    /\ ~face.destroyed
    /\ CommitFace([State EXCEPT !.face = Destroy(Called(@)), !.callArgs = <<>>],
                  "destroy")

\* The face with its teardown: calls are made until destroy(), the timers
\* that are still set go on firing after it
TeardownNext ==
    \/ (~face.destroyed /\ (CallSetExpression \/ CallSetFaceTalking))
    \/ CallDestroy
    \/ AutoBlinkFires \/ DelayedFires \/ TalkingTick

TeardownSpec == FaceStart /\ [][TeardownNext]_vars

\* --------------------------------------------------------------- speech
\* Responses of the LLM are spoken and the user types, with the proxy, the
\* Audio elements and the speech synthesizer answering in any order and in
\* any way they can.
AudioStart ==
    \E supported \in BOOLEAN :
        /\ Holds([Constructed(InitialViewport, InitBlobs(Seed),
                              RngAt(Seed, 5 * NumBlobs), InitialScale)
                      EXCEPT !.tts = NewPlayback(supported)])
        /\ frameQueue = <<>>
        /\ lastOp = "init"

CommitAudio(s, op) ==
    /\ Commit(s)
    /\ UNCHANGED frameQueue
    /\ lastOp' = op

\* the state record at the start of a task
Task == [State EXCEPT !.face = Called(@), !.callArgs = <<>>]

\* handleLlmResponse(response) calls audioService.speak
CallSpeak ==
    /\ Len(tts.calls) < MaxSpeaks
    /\ CommitAudio(Speak(Task), "speak")

\* the fetch of a speak() call settles and the call runs on
FetchSettles ==
    \E c \in 1..Len(tts.calls), outcome \in {"audio", "blocked", "failure"} :
        /\ tts.calls[c].fetching
        /\ CommitAudio(SpeakResumes(Task, c, outcome), "speakResumes")

\* the element makes its progress: its source loads and play() resolves, or
\* it cannot be played; a paused play() rejects
ElementLoads ==
    \E c \in 1..Len(tts.calls) :
        \/ /\ tts.calls[c].audio = "pending"
           /\ \/ CommitAudio([Task EXCEPT !.tts.calls[c].audio = "playing"], "playing")
              \/ CommitAudio(AudioFails(Task, c), "audioFails")
        \/ /\ tts.calls[c].audio = "aborted"
           /\ CommitAudio(PlayAborted(Task, c), "playAborted")

\* the playback ends, by itself or by an error
PlaybackOver ==
    \E c \in 1..Len(tts.calls), how \in {"ended", "failed"} :
        /\ tts.calls[c].audio = "playing"
        /\ CommitAudio(AudioOver(Task, c, how), "audioOver")

\* the synthesizer starts the queued utterance when it speaks no other
SynthesizerStarts ==
    \E c \in 1..Len(tts.calls) :
        /\ tts.calls[c].utter = "queued"
        /\ \A d \in 1..Len(tts.calls) : tts.calls[d].utter # "speaking"
        /\ CommitAudio(UtteranceStarts(Task, c), "utteranceStarts")

\* the utterance is over: spoken to its end, failed, or removed by cancel()
SynthesizerDone ==
    \E c \in 1..Len(tts.calls) :
        \/ /\ tts.calls[c].utter = "speaking"
           /\ \E how \in {"ended", "failed"} :
                  CommitAudio(UtteranceOver(Task, c, how), "utteranceOver")
        \/ /\ tts.calls[c].utter = "cancelling"
           /\ CommitAudio(UtteranceOver(Task, c, "failed"), "utteranceOver")

\* the user types into one of the inputs
Types == CommitAudio(OnInput(Task), "input")

AudioNext ==
    \/ CallSpeak \/ FetchSettles \/ ElementLoads \/ PlaybackOver
    \/ SynthesizerStarts \/ SynthesizerDone \/ Types

AudioSpec == AudioStart /\ [][AudioNext]_vars

\* ------------------------------------------------------------- sendChat
\* One sendChat call after the other, each fetch coming to any outcome
ChatStart ==
    /\ Holds(Constructed(InitialViewport, InitBlobs(Seed),
                         RngAt(Seed, 5 * NumBlobs), InitialScale))
    /\ frameQueue = <<>>
    /\ lastOp = "init"

\* App.handleInput calls llmService.sendChat, when no call is in flight
CallSendChat ==
    /\ chat.status # "awaiting"
    /\ Commit([State EXCEPT !.chat = SendChat(@)])
    /\ UNCHANGED frameQueue
    /\ lastOp' = "sendChat"

\* the fetch of the call in flight settles
ChatFetchSettles ==
    \E o \in FetchOutcomes :
        /\ chat.status = "awaiting"
        /\ Commit([State EXCEPT !.chat = SendChatResumes(@, o)])
        /\ UNCHANGED frameQueue
        /\ lastOp' = "chatResumes"

ChatNext == CallSendChat \/ ChatFetchSettles

ChatSpec == ChatStart /\ [][ChatNext]_vars

\* ------------------------------------------------------ the eyes as drawn
\* setExpression called from outside at any moment between gsap's ticks, and
\* the auto-blink interval (3 s or more, longer than any tween) firing once.
EyeStart ==
    /\ Holds(Constructed(InitialViewport, InitBlobs(Seed),
                         RngAt(Seed, 5 * NumBlobs), InitialScale))
    /\ frameQueue = <<>>
    /\ lastOp = "init"

CommitEyes(e, op) ==
    /\ Commit([State EXCEPT !.eyes = e])
    /\ UNCHANGED frameQueue
    /\ lastOp' = op

CallSetExpressionEyes ==
    \E type \in Expressions :
        /\ eyes.calls < MaxEyeCalls
        /\ CommitEyes([SetExpressionEyes(Sweep(eyes), type) EXCEPT !.calls = @ + 1],
                      "setExpression")

EyesAutoBlink ==
    /\ eyes.autoBlinks = 0
    /\ CommitEyes([AutoBlinkEyes(Sweep(eyes)) EXCEPT !.autoBlinks = 1], "autoBlink")

TickerTicks ==
    /\ eyes.tweens # <<>> \/ eyes.delayed # <<>> \/ eyes.blinks # <<>>
    /\ CommitEyes(GsapTick(Sweep(eyes)), "tick")

EyeNext == CallSetExpressionEyes \/ EyesAutoBlink \/ TickerTicks

EyeSpec == EyeStart /\ [][EyeNext]_vars

\* ------------------------------------------------ the pointer and placement
\* The calls that carry coordinates to the face: mousemove events in a
\* window that is resized, and updateMousePosition and updatePosition called
\* with any numbers, NaN and infinities among them.
ClientXs == {0, 20000}            \* event.clientX, hundredths of a pixel
ClientYs == {0, 30000}            \* event.clientY
Coordinates == {Num(500), NaN, Infinity(1)}    \* normalized, thousandths
ScreenCoordinates == {Num(30000), NaN, Infinity(-1)}

\* a mousemove event reaches onMouseMove
MouseMove ==
    \E cx \in ClientXs, cy \in ClientYs :
        CommitFace([OnMouseMove([State EXCEPT !.face = Called(@)], cx, cy)
                        EXCEPT !.callArgs = <<cx, cy>>], "mouseMove")

\* faceManager.updateMousePosition(x, y)
CallUpdateMousePosition ==
    \E x \in Coordinates, y \in Coordinates :
        CommitFace([State EXCEPT !.face = UpdateMousePosition(Called(@), x, y),
                                 !.callArgs = <<x, y>>], "updateMousePosition")

\* faceManager.updatePosition(screenX, screenY)
CallUpdatePosition ==
    \E x \in ScreenCoordinates, y \in ScreenCoordinates :
        /\ placements < MaxPlacements
        /\ CommitFace([UpdatePosition(NoSteps(State), ScreenPoint(x, y))
                           EXCEPT !.callArgs = <<x, y>>], "updatePosition")

PointerNext ==
    \/ MouseMove \/ CallUpdateMousePosition \/ CallUpdatePosition \/ Resize

PointerSpec == FaceStart /\ [][PointerNext]_vars

\* ---------------------------------------------- the services and proxies
\* App's constructor has made its LLMService and AudioService; the service
\* objects send requests, the AudioService class that scene.js exports may
\* be instantiated too, and the two proxies handle requests of any method
\* from any origin, in every environment.
ServiceStart ==
    \E env \in Environments :
        /\ Holds([Constructed(InitialViewport, InitBlobs(Seed),
                              RngAt(Seed, 5 * NumBlobs), InitialScale)
                     EXCEPT !.net = NewAudioService(NewLLMService(NewServices(env)))])
        /\ frameQueue = <<>>
        /\ lastOp = "init"

\* the services record n is the next one
CommitNet(n, op) ==
    /\ Commit([State EXCEPT !.net = n])
    /\ UNCHANGED frameQueue
    /\ lastOp' = op

\* the AudioService class of scene.js is instantiated
Construct == CommitNet(NewSceneAudioService(net), "newSceneAudioService")

\* a constructed service object sends the request of speak() / sendChat()
SendRequest ==
    \E c \in net.clients : CommitNet(ClientRequest(net, c), "request")

Requests ==
    [method : {"POST", "OPTIONS", "GET"}, origin : Origins, valid : BOOLEAN]

\* a proxy handles a request
ProxyHandles ==
    \E proxy \in Proxies, req \in Requests, outcome \in {"ok", "error", "throws"} :
        CommitNet(Handler(net, proxy, req, outcome), "handler")

ServiceNext == Construct \/ SendRequest \/ ProxyHandles

ServiceSpec == ServiceStart /\ [][ServiceNext]_vars

\* ===================================================================
\* Properties
\* ===================================================================

\* the animate callbacks that are requested and have not run yet
AnimateOutstanding ==
    Cardinality({i \in 1..Len(rafQueue) : rafQueue[i].fn = "animate"})
        + Cardinality({i \in 1..Len(frameQueue) : frameQueue[i].fn = "animate"})

\* C1: whatever the sequence of pause(), resume() and frames, at most one
\* animate callback is outstanding, and while the scheduler is not paused
\* exactly one is: never zero, never two (so also after pause(); pause();
\* resume()).
C1_OneFrameLoop ==
    /\ AnimateOutstanding <= 1
    /\ ~isPaused => AnimateOutstanding = 1

\* C1 witness: resume() has just run after two pause() calls in a row, and
\* one frame loop is active.
C1_Witness ==
    lastOp = "resume" /\ resumeStreak = 2 /\ ~isPaused /\ AnimateOutstanding = 1

\* C2: while the scheduler is paused no animate callback is pending and
\* animationFrameId is null, and no step taken while it stays paused runs a
\* frame body.
C2_PausedRunsNothing ==
    /\ [](isPaused => AnimateOutstanding = 0 /\ animationFrameId = NullHandle)
    /\ [][isPaused /\ isPaused' => frameRuns' = frameRuns]_vars

\* C2 witness: after frames have run the scheduler is paused, and the browser
\* has run a frame in which only a transition closure sampled.
C2_Witness ==
    isPaused /\ lastOp = "transition" /\ frameRuns > 1 /\ animationFrameId = NullHandle

\* C4: pause() on a paused scheduler changes nothing of the scheduler and
\* issues no cancel; resume() on a running scheduler requests no frame and
\* runs no update.
C4_Idempotent ==
    [][/\ (isPaused /\ lastOp' = "pause") =>
            /\ isPaused' /\ animationFrameId' = animationFrameId
            /\ rafQueue' = rafQueue /\ frameQueue' = frameQueue
            /\ cancelCount' = cancelCount
       /\ (~isPaused /\ lastOp' = "resume") =>
            /\ ~isPaused' /\ animationFrameId' = animationFrameId
            /\ rafQueue' = rafQueue /\ frameQueue' = frameQueue
            /\ nextHandle' = nextHandle /\ frameRuns' = frameRuns
            /\ blobs' = blobs /\ smoothed' = smoothed]_vars

\* C4 witness: a second pause() in a row has run, and one cancel was issued.
C4_Witness == lastOp = "pause" /\ pauseStreak = 2 /\ isPaused /\ cancelCount = 1

\* transition i has a sample requested
InFlight(i) == Pending(rafQueue, i) \/ Pending(frameQueue, i)

\* C5: each call of expandBlob/resetBlob invokes its onComplete exactly once:
\* never twice, not before the sample at which the clamped progress has
\* reached 1 (after which the closure requests no further sample), and
\* eventually, also when another transition is started while it is in flight.
C5_CompletesExactlyOnce ==
    /\ [](\A i \in 1..Len(trans) :
            /\ trans[i].completed <= 1
            /\ trans[i].completed = 1 =>
                   /\ trans[i].completedAt - trans[i].startTime >= DurationTicks
                   /\ ~InFlight(i)
            /\ trans[i].completed = 0 => InFlight(i))
    /\ \A i \in 1..MaxTransitions :
            (Len(trans) >= i) ~> (Len(trans) >= i /\ trans[i].completed = 1)

\* C5 witness: two transitions overlapped and each has completed once.
C5_Witness ==
    /\ Len(trans) = 2 /\ trans[1].superseded
    /\ trans[1].completed = 1 /\ trans[2].completed = 1

\* C6: once a transition is started while another is in flight, at most one
\* transition is active and the older one writes the scale no more.
C6_NewerSupersedes ==
    /\ Cardinality({i \in 1..Len(trans) : InFlight(i)}) <= 1
    /\ \A i \in 1..Len(trans) : ~trans[i].staleWrite

\* C7: a transition superseded by a newer one never invokes its completion
\* callback afterwards.
C7_SupersededNeverCompletes ==
    \A i \in 1..Len(trans) : ~trans[i].lateComplete

\* C8: an expand transition that has reached progress 1 leaves the scale at
\* exactly (40, 40, 0.5) and a reset transition at exactly (5, 5, 0.5),
\* whatever scale it started from.
C8_ExactTargets ==
    \A i \in 1..Len(trans) :
        trans[i].completed >= 1 =>
            /\ trans[i].kind = "expand" => trans[i].doneScale = <<40000, 40000, 500>>
            /\ trans[i].kind = "reset" => trans[i].doneScale = <<5000, 5000, 500>>

\* C8 witness: an expand has completed, the reset started afterwards from
\* (40, 40, 0.5) has completed too, and the scale is (5, 5, 0.5).
C8_Witness ==
    /\ Len(trans) = 2
    /\ trans[1].kind = "expand" /\ trans[1].completed = 1
    /\ trans[2].kind = "reset" /\ trans[2].startScale = <<40000, 40000, 500>>
    /\ trans[2].completed = 1 /\ scale = <<5000, 5000, 500>>

\* C3 as claimed: while isPaused stays true, no step changes the bodies, the
\* field or the smoothed point, whatever event arrives.
C3_PausedNothingMoves ==
    [][isPaused /\ isPaused' => UNCHANGED <<blobs, field, smoothed>>]_vars

\* C3 as amended: while isPaused stays true, no step changes the bodies or
\* the field, and the smoothed point changes only by a viewport resize, which
\* sets it to the centre of the new viewport.
C3_PausedOnlyResizeMoves ==
    [][isPaused /\ isPaused' =>
          /\ UNCHANGED <<blobs, field>>
          /\ \/ smoothed' = smoothed
             \/ /\ lastOp' = "resize"
                /\ smoothed' = <<width' \div 2, height' \div 2>>]_vars

\* C3 witness: the window was resized while paused, after frames had moved
\* the smoothed point off the centre, and the point is at the new centre.
C3_Witness ==
    /\ isPaused /\ lastOp = "resize" /\ frameRuns > 1
    /\ <<width, height>> # InitialViewport /\ AnimateOutstanding = 0
    /\ smoothed = <<width \div 2, height \div 2>>

\* the target calculateMassCenter computes in the current state
ProjectedTarget == ProjectToScreen(MassCenter(blobs, scale), width, height)

\* the target is not finite or lies outside [0, width] x [0, height]
TargetRejected ==
    \/ ~ProjectedTarget.finite
    \/ ProjectedTarget.x < 0 \/ ProjectedTarget.x > width
    \/ ProjectedTarget.y < 0 \/ ProjectedTarget.y > height

\* C9: a call of calculateMassCenter whose target is not finite or lies
\* outside [0, width] x [0, height] leaves the smoothed point unchanged and
\* does not call FaceManager.updatePosition.
C9_RejectedTargetNoUpdate ==
    [][lastOp' = "project" /\ TargetRejected =>
          UNCHANGED <<smoothed, faceTarget, placements>>]_vars

\* C9 witness: calculateMassCenter has run on a finite target outside the
\* viewport, of bodies with positive strength, after the overlay had been
\* placed in a larger viewport.
C9_Witness ==
    /\ lastOp = "project" /\ placements > 0
    /\ ProjectedTarget.finite /\ TargetRejected
    /\ \A i \in 1..Len(blobs) : blobs[i].strength > 0

\* the total strength of the bodies
TotalStrength == SumSeq([i \in 1..Len(blobs) |-> blobs[i].strength])

Abs(a) == IF a < 0 THEN -a ELSE a

Max(a, b) == IF a < b THEN b ELSE a

\* the target of the current state as a pair
Raw == <<ProjectedTarget.x, ProjectedTarget.y>>

\* C11: every accepted smoothing step moves the smoothed point toward the
\* target and never past it: per axis the new value lies between the old one
\* and the target, the step is 0.12 of the distance and the remaining
\* distance 0.88 of it (each up to the rounding of half a unit).
C11_StepTowardsRaw ==
    [][lastOp' = "project" /\ ~TargetRejected =>
          \A i \in 1..2 :
              /\ Min(smoothed[i], Raw[i]) <= smoothed'[i]
              /\ smoothed'[i] <= Max(smoothed[i], Raw[i])
              /\ 100 * Abs(smoothed'[i] - smoothed[i])
                     <= 12 * Abs(Raw[i] - smoothed[i]) + 50
              /\ 100 * Abs(Raw[i] - smoothed'[i])
                     <= 88 * Abs(Raw[i] - smoothed[i]) + 50]_vars

\* C11 witness: two accepted steps have moved the smoothed point off the
\* viewport centre on both axes, and it has not reached the target.
C11_Witness ==
    /\ lastOp = "project" /\ placements = 2 /\ ~TargetRejected
    /\ \A i \in 1..2 : smoothed[i] # Raw[i]
    /\ smoothed[1] # width \div 2 /\ smoothed[2] # height \div 2

\* C12: with the target held at (500, 500) and the smoothed point started at
\* (0, 0), the smoothed point never exceeds 500 on either axis and after 50
\* accepted frames it is within 1 px of (500, 500) on each axis.
C12_Within1After50 ==
    (width = 100000 /\ height = 100000 /\ ~TargetRejected /\ Raw = <<50000, 50000>>) =>
        \A i \in 1..2 :
            /\ smoothed[i] <= 50000
            /\ placements >= 50 => 50000 - smoothed[i] <= 100

\* C12 witness: 50 frames have been accepted with the target (500, 500), of
\* bodies with positive strength, and the smoothed point is within 1 px.
C12_Witness ==
    /\ width = 100000 /\ height = 100000 /\ Raw = <<50000, 50000>>
    /\ TotalStrength > 0 /\ placements = 50
    /\ \A i \in 1..2 : smoothed[i] > 49900 /\ smoothed[i] <= 50000

\* C13: the resize handler sets the smoothed point to (width / 2, height / 2)
\* of the new viewport, whatever it was and whether the scheduler is paused
\* or running.
C13_ResizeRecentres ==
    [][lastOp' = "resize" => smoothed' = <<width' \div 2, height' \div 2>>]_vars

\* C13 witness: the window was resized while the scheduler was running again
\* after a pause, and the smoothed point is at the centre of the new window.
C13_Witness ==
    /\ lastOp = "resize" /\ ~isPaused /\ resumeStreak > 0 /\ frameRuns > 2
    /\ <<width, height>> = <<40000, 40000>>
    /\ smoothed = <<20000, 20000>>

\* C14: setExpression(t) called while currentExpression is already t is a
\* no-op: it starts no animation, kills no timeline and leaves every field
\* of the face as it was; so is the setExpression('neutral') of init(),
\* after which there is no expression timeline and no tween was started.
C14_SameExpressionNoOp ==
    /\ face.currentExpression = "neutral" /\ face.expressionTimeline = 0
    /\ face.started = 0 /\ face.attr = NewFace.attr /\ face.delayed = <<>>
    /\ [][lastOp' = "setExpression" /\ callArgs'[1] = face.currentExpression =>
             /\ face' = Called(face)
             /\ UNCHANGED <<mouse, faceTarget, placements>>]_vars

\* setExpression('happy') has returned with nothing started on a face that
\* was happy already and has its timeline from the call that made it so
C14_Witness ==
    /\ lastOp = "setExpression" /\ callArgs = <<"happy">>
    /\ face.currentExpression = "happy" /\ face.expressionTimeline = 1
    /\ face.started = 0 /\ face.killed = 0

\* C15: blink is momentary, not sticky: once the blink started by
\* setExpression('blink') has run (its reopening tween has fired),
\* currentExpression is no longer 'blink', and every setExpression('blink')
\* runs a blink: it closes the eyes and starts the tweens of one.
C15_BlinkMomentary ==
    /\ [](face.currentExpression = "blink" => face.delayed # <<>>)
    /\ [][lastOp' = "setExpression" /\ callArgs' = <<"blink">> =>
             face'.started > 0 /\ face'.attr.leftEye = 0]_vars

\* C16: the auto-blink timer's callback blinks only if currentExpression
\* is 'neutral'; a firing while the face is happy, surprised or winking (or
\* in any other expression) changes no eye or mouth shape and starts no
\* tween, and a firing on a neutral face closes both eyes.
C16_AutoBlinkOnlyNeutral ==
    [][lastOp' = "autoBlink" =>
          IF face.currentExpression = "neutral"
          THEN face'.attr.leftEye = 0 /\ face'.attr.rightEye = 0
               /\ face'.attr.mouth = face.attr.mouth /\ face'.started = 2
          ELSE face'.attr = face.attr /\ face'.delayed = face.delayed
               /\ face'.started = 0
               /\ face'.currentExpression = face.currentExpression]_vars

\* the timer has fired on a happy face and left the happy shapes in place
C16_Witness ==
    /\ lastOp = "autoBlink" /\ face.currentExpression = "happy"
    /\ face.attr = [leftEye |-> 6, rightEye |-> 6, mouth |-> HappyMouth]
    /\ face.started = 0

\* C17: at most one talking loop exists at a time: a start while a loop
\* is running creates no second one and changes nothing, and after a single
\* stop no loop remains.
C17_OneTalkingLoop ==
    /\ [](face.liveLoops <= 1 /\ (face.liveLoops = 1 <=> face.talkingTimeline # 0))
    /\ [][(lastOp' = "startTalking" /\ face.talkingTimeline # 0
               => face' = Called(face))
           /\ (lastOp' = "startTalking" => face'.liveLoops = 1)
           /\ (lastOp' = "stopTalking"
               => face'.liveLoops = 0 /\ face'.talkingTimeline = 0)]_vars

\* a start has returned with nothing started while the loop of an earlier
\* start is running
C17_Witness ==
    /\ lastOp = "startTalking" /\ face.started = 0
    /\ face.talkingTimeline # 0 /\ face.liveLoops = 1 /\ face.talkingPhase = 1

\* C18: talking and the expression are independent: starting or stopping
\* the talking loop never changes currentExpression (or the expression
\* timeline), and setExpression never starts, stops or replaces the talking
\* loop.
C18_TalkingIndependent ==
    [][(lastOp' \in {"startTalking", "stopTalking"}
           => /\ face'.currentExpression = face.currentExpression
              /\ face'.expressionTimeline = face.expressionTimeline)
       /\ (lastOp' = "setExpression"
           => /\ face'.talkingTimeline = face.talkingTimeline
              /\ face'.liveLoops = face.liveLoops
              /\ face'.talkingPhase = face.talkingPhase)]_vars

\* the talking loop of a happy face has been stopped and the face is still
\* happy
C18_Witness ==
    /\ lastOp = "stopTalking" /\ face.killed = 1
    /\ face.currentExpression = "happy" /\ face.expressionTimeline = 1
    /\ face.talkingTimeline = 0

\* C19: updatePosition called with a NaN or infinite screenX or screenY is
\* ignored: no tween is started and the placement's target stays what it
\* was.
C19_NonFinitePlacementIgnored ==
    [][lastOp' = "updatePosition"
          /\ ~(IsFinite(callArgs'[1]) /\ IsFinite(callArgs'[2]))
          => UNCHANGED <<faceTarget, placements, face>>]_vars

\* updatePosition(NaN, 300) has returned and the face is still placed where
\* the one accepted call before it, (300, 300) in the 800 x 600 window, put it
C19_Witness ==
    /\ lastOp = "updatePosition" /\ callArgs = <<NaN, Num(30000)>>
    /\ placements = 1 /\ faceTarget = <<-10000, 0>>

\* C20: NaN or infinite pointer coordinates given to updateMousePosition,
\* directly or by onMouseMove, leave the stored pointer position and the
\* parallax targets of the four sub-elements unchanged.
C20_NonFinitePointerIgnored ==
    [][(\/ /\ lastOp' = "updateMousePosition"
           /\ ~(IsFinite(callArgs'[1]) /\ IsFinite(callArgs'[2]))
        \/ /\ lastOp' = "mouseMove"
           /\ ~(IsFinite(mouse'[1]) /\ IsFinite(mouse'[2])))
          => /\ face'.mouseX = face.mouseX /\ face'.mouseY = face.mouseY
             /\ face'.offset = face.offset]_vars

\* the pointer of the last mousemove event was above the middle of the
\* window, below it, left of it, right of it
PointerAbove == 2 * callArgs[2] < height
PointerBelow == 2 * callArgs[2] > height
PointerLeft == 2 * callArgs[1] < width
PointerRight == 2 * callArgs[1] > width

\* C21: on the path pointer event -> onMouseMove -> updateMousePosition
\* the vertical parallax is reflected: a pointer above the middle of the
\* window moves the nose, mouth and eyes down the screen (positive y), one
\* below it moves them up, while the horizontal offset follows the pointer.
C21_VerticalReflected ==
    (lastOp = "mouseMove" /\ IsFinite(mouse[1]) /\ IsFinite(mouse[2])) =>
        \A e \in Elements :
            /\ PointerAbove => face.offset[e][2].v > 0
            /\ PointerBelow => face.offset[e][2].v < 0
            /\ PointerLeft => face.offset[e][1].v < 0
            /\ PointerRight => face.offset[e][1].v > 0

\* the face's stored pointer is finite and within [-1, 1] on both axes
PointerInRange ==
    /\ IsFinite(face.mouseX) /\ Abs(face.mouseX.v) <= 1000
    /\ IsFinite(face.mouseY) /\ Abs(face.mouseY.v) <= 1000

\* C22: for a pointer in [-1, 1] x [-1, 1] each element's offset is the
\* pointer value times 15 px times its multiplier (nose 1.0, mouth 0.6, eyes
\* 0.3; the model's offsets are rounded to a thousandth of a pixel), so on
\* each axis |nose| >= |mouth| >= |eye|, both eyes have the same offset and
\* no offset exceeds 15 px.
C22_ParallaxProportional ==
    PointerInRange =>
        /\ \A e \in Elements : \A i \in 1..2 :
              /\ IsFinite(face.offset[e][i])
              /\ Abs(face.offset[e][i].v) <= 15000
        /\ \A i \in 1..2 :
              /\ Abs(face.offset.nose[i].v) >= Abs(face.offset.mouth[i].v)
              /\ Abs(face.offset.mouth[i].v) >= Abs(face.offset.leftEye[i].v)
        /\ face.offset.leftEye = face.offset.rightEye
        /\ 2 * Abs(face.offset.nose[1].v - face.mouseX.v * 15) <= 1
        /\ 2 * Abs(10 * face.offset.mouth[1].v - face.mouseX.v * 90) <= 10
        /\ 2 * Abs(10 * face.offset.leftEye[1].v - face.mouseX.v * 45) <= 10
        /\ 2 * Abs(face.offset.nose[2].v + face.mouseY.v * 15) <= 1
        /\ 2 * Abs(10 * face.offset.mouth[2].v + face.mouseY.v * 90) <= 10
        /\ 2 * Abs(10 * face.offset.leftEye[2].v + face.mouseY.v * 45) <= 10

\* a mousemove at the left edge, three quarters down the 400 x 400 window:
\* the pointer is (-1, -0.5), the nose is moved by (-15, 7.5) px, the mouth
\* by (-9, 4.5) and each eye by (-4.5, 2.25)
C22_Witness ==
    /\ lastOp = "mouseMove" /\ face.mouseX = Num(-1000) /\ face.mouseY = Num(-500)
    /\ face.offset.nose = <<Num(-15000), Num(7500)>>
    /\ face.offset.mouth = <<Num(-9000), Num(4500)>>
    /\ face.offset.leftEye = <<Num(-4500), Num(2250)>>
    /\ face.offset.rightEye = <<Num(-4500), Num(2250)>>

\* the steps of a frame body whose target was accepted, and of one whose
\* target was rejected
FullFrame == <<"integrate", "field", "project", "smooth", "place", "render">>
RejectedFrame == <<"integrate", "field", "project", "render">>

\* C23: in every executed frame (a step that runs animate's body, from the
\* frame callback or from resume) the steps happen in this order, none
\* reordered: body integration and field rebuild, then projection of the
\* mass centre and smoothing, then overlay placement, then render.  The
\* field is the one of the bodies as integrated in this frame, the target is
\* projected from those bodies, and the placement is the one of the point as
\* smoothed in this frame.
C23_FrameOrder ==
    [][frameRuns' # frameRuns =>
          /\ field' = FieldOf(blobs') /\ blobs' = UpdateBlobs(blobs, now, rng)
          /\ LET t == ProjectToScreen(MassCenter(blobs', scale), width, height)
             IN  IF TargetAccepted(t, width, height)
                 THEN /\ frameSteps' = FullFrame
                      /\ smoothed' = Smooth(smoothed, t)
                      /\ faceTarget' = <<smoothed'[1] - width \div 2,
                                         smoothed'[2] - height \div 2>>
                 ELSE /\ frameSteps' = RejectedFrame
                      /\ UNCHANGED <<smoothed, faceTarget>>]_vars

\* the third frame body has run to its end and placed the face
C23_Witness ==
    /\ lastOp = "animate" /\ frameRuns = 3 /\ frameSteps = FullFrame
    /\ placements = 3 /\ field = FieldOf(blobs)

\* C24: if a frame's update (integration, field rebuild or projection)
\* fails with an exception, only the rest of that frame is skipped (nothing
\* is smoothed, placed or rendered): the next frame is already requested
\* under the handle animate stored, the scheduler stays un-paused with
\* exactly one animate callback outstanding, and the frames after it run
\* from start to end.
C24_FaultSkipsOneFrame ==
    /\ [](~isPaused => AnimateOutstanding = 1)
    /\ [][lastOp' = "throw" =>
             /\ ~isPaused' /\ animationFrameId' # NullHandle
             /\ \E i \in 1..Len(rafQueue') :
                   rafQueue'[i].fn = "animate" /\ rafQueue'[i].id = animationFrameId'
             /\ UNCHANGED <<frameRuns, smoothed, faceTarget, placements>>]_vars
    /\ [][faults > 0 /\ lastOp' = "animate" /\ ~isPaused =>
             frameRuns' = frameRuns + 1
             /\ frameSteps' \in {FullFrame, RejectedFrame}]_vars

\* the frame body after one that threw has run from start to end and placed
\* the face
C24_Witness ==
    /\ faults = 1 /\ lastOp = "animate" /\ frameSteps = FullFrame
    /\ ~isPaused /\ AnimateOutstanding = 1 /\ frameRuns = 2 /\ now = 2

\* C25: when a project is presented while the app is not embedded, the
\* embedded layer becomes visible only in the step in which an expand
\* transition completes (a full duration after it started, the scale at the
\* expanded target); the pause is armed in that step, 200 ms ahead, and
\* pause() is called only when that time has come.
C25_RevealAfterExpand ==
    /\ [][embeddedActive' /\ ~embeddedActive =>
             /\ lastOp' = "transition" /\ scale' = ExpandTarget
             /\ \E i \in 1..Len(trans) :
                   /\ trans[i].kind = "expand" /\ trans[i].onComplete = "enter"
                   /\ trans[i].completed = 0 /\ trans'[i].completed = 1
                   /\ now >= trans[i].startTime + DurationTicks
             /\ timers'.embedPause = Append(timers.embedPause,
                                           now + DelayTicks("embedPause"))]_vars
    /\ [][Len(timers'.embedPause) > Len(timers.embedPause) =>
             embeddedActive' /\ lastOp' = "transition"]_vars
    /\ [][Len(timers'.embedPause) < Len(timers.embedPause) =>
             /\ lastOp' = "pause" /\ isPaused'
             /\ now >= Head(timers.embedPause)
             /\ \E i \in 1..Len(trans) :
                   /\ trans[i].onComplete = "enter" /\ trans[i].completed = 1
                   /\ now >= trans[i].completedAt + DelayTicks("embedPause")]_vars

\* the pause armed by the reveal has been made: the layer is visible, the
\* expand that revealed it completed earlier, the scheduler is paused
C25_Witness ==
    /\ lastOp = "pause" /\ isPaused /\ embeddedActive /\ isEmbedded
    /\ aboutOpens = 0 /\ timers.embedPause = <<>> /\ scale = ExpandTarget
    /\ \E i \in 1..Len(trans) :
          /\ trans[i].kind = "expand" /\ trans[i].completed = 1
          /\ trans[i].completedAt < now

\* C26: API keys are never exposed to the browser: no client-side service
\* object holds an API key, every request that leaves the browser goes to
\* one of the /api proxies and carries no key, and no response of a proxy
\* contains a key.
C26_KeysStayServerSide ==
    /\ \A c \in net.clients : c.apiKey = Undefined
    /\ net.request # NoRequest =>
          net.request.to \in Proxies /\ net.request.key = Undefined
    /\ net.response # NoResponse =>
          net.response.body \cap Keys = {} /\ net.response.allowOrigin \notin Keys

\* the step fires the i-th delayed entry of the face
Fires(i) ==
    /\ lastOp' = "delayed" /\ i \in 1..Len(face.delayed)
    /\ face'.delayed = RemoveAt(face.delayed, i)

\* C27: setExpression(type) with a type other than the current one
\* cancels every in-flight animation the previous expression started, the
\* wink's delayed eye-reopen included: what is still waiting after the call
\* was started by the call itself, and no delayed tween or call that an
\* earlier wink or blink expression started acts once the face has another
\* expression.
C27_ChangeCancelsPrevious ==
    /\ [][lastOp' = "setExpression" /\ callArgs'[1] # face.currentExpression =>
             \A i \in 1..Len(face'.delayed) :
                 face'.delayed[i].of \in {"neutral", callArgs'[1]}]_vars
    /\ [][\A i \in 1..Len(face.delayed) :
             Fires(i) /\ face.delayed[i].of # "neutral" =>
                 face.delayed[i].of = face.currentExpression]_vars

\* a reopening that setWinkExpression started is waiting
ReopenPending == \E i \in 1..Len(face.delayed) : face.delayed[i].of = "wink"

C29_DestroyStopsCallbacks ==
    /\ [](face.destroyed =>
            face.blinkInterval = 0 /\ face.liveLoops = 0 /\ face.delayed = <<>>)
    /\ [][face.destroyed => lastOp' \notin {"autoBlink", "talkingTick", "delayed"}]_vars

\* C30: a scale transition is sampled by the frame scheduler's tick: while
\* the scheduler is paused no sample of a transition runs, so an in-flight
\* transition neither changes the scale nor completes.
C30_TransitionOnSchedulerTick ==
    [][isPaused /\ isPaused' =>
          /\ lastOp' # "transition"
          /\ scale' = scale
          /\ \A i \in 1..Len(trans) : trans'[i].completed = trans[i].completed]_vars

\* animate callbacks waiting in the list q of frame callbacks
AnimateRequests(q) == Len(SelectSeq(q, LAMBDA cb : cb.fn = "animate"))

\* C31: integration is per executed frame, not per elapsed time.  Every body
\* has taken as many integration steps as frame bodies were executed; a step
\* that starts and ends paused, however much time it lets pass, leaves the
\* bodies as they are; and the step that ends a pause (resume() while paused)
\* executes exactly one frame body at once, integrating every body once, and
\* leaves exactly one animate callback requested.
C31_StepsPerExecutedFrame ==
    /\ [](\A i \in 1..Len(blobs) : blobs[i].steps = frameRuns)
    /\ [][(isPaused /\ isPaused') => (blobs' = blobs /\ frameRuns' = frameRuns)]_vars
    /\ [][(isPaused /\ ~isPaused') =>
            (/\ frameRuns' = frameRuns + 1
             /\ \A i \in 1..Len(blobs) : blobs'[i].steps = blobs[i].steps + 1
             /\ AnimateRequests(rafQueue') = 1
             /\ AnimateRequests(rafQueue) = 0)]_vars

\* resume() has just ended a pause that lasted through the passing of time,
\* after more frames than the one of the constructor
C31_Witness ==
    /\ lastOp = "resume" /\ ~isPaused /\ resumeStreak > 0
    /\ frameRuns > 2 /\ now >= 3
    /\ \A i \in 1..Len(blobs) : blobs[i].steps = frameRuns
\* the four changes of the velocity in the order of the claim: the pull to
\* the centre pos * -0.003 is added, the sum is damped by 0.99, the periodic
\* drive of amplitude 0.0003 and the jitter drawn in state r are added
ForcesInOrder(v, p, drive, jitter) == MulDiv(v + MulDiv(p, -3, 1000), 99, 100) + drive + jitter

\* C32: in every tick each body's velocity gets the centering force, then the
\* damping, then the periodic drive, then the jitter, and only then the
\* position is advanced by that updated velocity; after every tick the z
\* component of every body's position and velocity is 0; the number of
\* bodies never changes.
C32_TickOrder ==
    /\ [](Len(blobs) = NumBlobs)
    /\ [](\A i \in 1..Len(blobs) : blobs[i].pos[3] = 0 /\ blobs[i].vel[3] = 0)
    /\ [][(frameRuns' # frameRuns) =>
            \A i \in 1..Len(blobs) :
                LET b == blobs[i]
                    r == RngAt(rng, 2 * (i - 1))
                    phase == (now' * 250) \div TicksPerSecond + (i - 1) * 1000
                    vx == ForcesInOrder(b.vel[1], b.pos[1],
                                        MulDiv(SinMilli(phase), 3, 1000), Centered(r, 20))
                    vy == ForcesInOrder(b.vel[2], b.pos[2],
                                        MulDiv(CosMilli(phase), 3, 1000), Centered(NextRng(r), 20))
                IN  /\ blobs'[i].vel = <<vx, vy, 0>>
                    /\ blobs'[i].pos = <<b.pos[1] + vx, b.pos[2] + vy, 0>>]_vars

\* a frame has just integrated bodies for at least the third time, and a
\* body is moving in both directions
C32_Witness ==
    /\ lastOp = "animate" /\ frameRuns >= 3
    /\ \E i \in 1..Len(blobs) :
           /\ blobs[i].steps >= 3
           /\ blobs[i].vel[1] # 0 /\ blobs[i].vel[2] # 0
\* the app shows the landing view: neither embedded nor in the about overlay
OnLanding == ~isEmbedded /\ ~aboutOpen

\* no setTimeout callback of App is waiting
TimersDone == \A k \in TimerKinds : timers[k] = <<>>

\* C33: a pause() made for embedded mode or for the about overlay never
\* outlives the mode: whenever the app is back on the landing view and all
\* pending timers have fired, the scheduler is not paused and the frame loop
\* is running.
C33_PauseNeverOutlivesMode ==
    (OnLanding /\ TimersDone) => (~isPaused /\ AnimateOutstanding = 1)
\* C34: after a cancelSpeech() has returned, no audio or utterance of a
\* speak() call issued before it is started and the call's onStart is not
\* invoked, so a cancelled speech never switches the TTS cursor and the
\* talking animation back on.
C34_CancelledSpeechStaysSilent ==
    \A c \in 1..Len(tts.calls) : ~tts.calls[c].lateStart /\ ~tts.calls[c].latePlay

\* C35: the onEnd callback of a speak() call is invoked at most once,
\* whichever way the call ends: playback ended, playback error, rejected
\* play(), or the Web Speech fallback.
C35_OnEndAtMostOnce == \A c \in 1..Len(tts.calls) : tts.calls[c].ends <= 1
\* an attempt failed, in the words of the claim: network error, non-OK
\* status, or a content that is unparsable or incomplete
AttemptFailed(o) ==
    \/ o.net = "error"
    \/ ~o.ok
    \/ o.body # "data"
    \/ o.content.kind = "null"
    \/ o.content.json # "object"
    \/ o.content.obj.message \in {Undefined, ""}
    \/ o.content.obj.action \in {Undefined, ""}

\* C36: sendChat never rejects and ends after at most 3 requests; it returns
\* the content of the first response that parses to an object with non-empty
\* message and action, and it returns the fallback object (action
\* 'redirect') if and only if all three attempts failed.
C36_SendChatTerminates ==
    /\ chat.status # "rejected"
    /\ chat.requests <= 3
    /\ chat.status = "awaiting" =>
           /\ chat.requests = Len(chat.tried) + 1
           /\ \A i \in 1..Len(chat.tried) : AttemptFailed(chat.tried[i])
    /\ chat.status = "returned" =>
           /\ chat.requests = Len(chat.tried)
           /\ \A i \in 1..(Len(chat.tried) - 1) : AttemptFailed(chat.tried[i])
           /\ (chat.result = Fallback) <=>
                  (Len(chat.tried) = 3 /\ \A i \in 1..3 : AttemptFailed(chat.tried[i]))
           /\ (chat.result # Fallback) =>
                  /\ ~AttemptFailed(chat.tried[Len(chat.tried)])
                  /\ chat.result = chat.tried[Len(chat.tried)].content.obj
                  /\ chat.result.message # "" /\ chat.result.action # ""

\* sendChat has returned the fallback after a network error, a non-OK status
\* and an incomplete object
C36_Witness ==
    /\ chat.status = "returned" /\ chat.result = Fallback /\ chat.requests = 3
    /\ chat.tried[1].net = "error"
    /\ chat.tried[2].net = "response" /\ ~chat.tried[2].ok
    /\ chat.tried[3].ok
    /\ chat.tried[3].content =
           Content("string", FALSE, "object", [message |-> "Hello", action |-> ""])
\* the origin of the site itself
SiteOrigin == <<"https">> \o Site

\* C37: in production a proxy forwards a request upstream only if the
\* request's Origin (or Referer) is the site beta.xiaotianfanx.com: a
\* non-OPTIONS request from any other origin, or with none, gets 403 and
\* causes no upstream call, and no Access-Control-Allow-Origin header is set
\* for another site.
C37_ProductionOriginCheck ==
    (net.env.production /\ net.handled # NoHandled) =>
        /\ net.upstream # NoUpstream => net.upstream.origin = SiteOrigin
        /\ (net.handled.method # "OPTIONS" /\ net.handled.origin # SiteOrigin) =>
               (net.response.status = 403 /\ net.upstream = NoUpstream)
        /\ net.response.allowOrigin # Undefined => net.response.allowOrigin = SiteOrigin
\* C38: in every reachable state the smoothed target lies inside the current
\* viewport: 0 <= smoothedScreenX <= width and 0 <= smoothedScreenY <= height.
C38_SmoothedInsideViewport ==
    /\ 0 <= smoothed[1] /\ smoothed[1] <= width
    /\ 0 <= smoothed[2] /\ smoothed[2] <= height

\* the window was resized to the smaller viewport, and a target accepted
\* after that has moved the smoothed point off the centre
C38_Witness ==
    /\ lastOp = "project" /\ placements >= 2
    /\ <<width, height>> = <<40000, 40000>>
    /\ smoothed # <<20000, 20000>>
    /\ C38_SmoothedInsideViewport
\* C39: stopTalkingAnimation always retargets the mouth to the neutral line
\* (85,130)-(115,130), also when no talking loop was active and when the
\* current expression is happy or surprised: the mouth of a non-neutral
\* expression is overwritten while currentExpression stays what it was.
C39_StopTalkingRetargetsMouth ==
    [][(lastOp' = "stopTalking") =>
          (/\ face'.attr.mouth = <<85, 130, 115, 130>>
           /\ face'.talkingTimeline = 0
           /\ face'.currentExpression = face.currentExpression)]_vars

\* setFaceTalking(false) was called on a happy face with no talking loop
\* (no timeline was killed): the mouth is retargeted from the happy line to
\* the neutral one, and the expression is still happy
C39_Witness ==
    /\ lastOp = "stopTalking" /\ face.killed = 0
    /\ face.currentExpression = "happy"
    /\ face.attr.mouth = NeutralMouth /\ NeutralMouth # HappyMouth

\* C40: when a blink has run to its end and no other eye tween was started
\* between the call and that end, both eyes are drawn with the radius the left
\* eye was drawn with when blink() was called, or 8 if that radius was 0;
\* this holds whatever tweens of earlier blinks or expressions were still
\* running at the call.
C40_BlinkRestoresRadius ==
    \A i \in 1..Len(eyes.blinks) :
        LET b == eyes.blinks[i]
        IN  (b.left = 0 /\ ~b.disturbed) =>
                \A el \in Eyes :
                    eyes.shown[el] = (IF b.seen = 0 THEN Radius(8) ELSE b.seen)

\* a blink called in the middle of an expression tween has run to its end
C40_Witness ==
    \E i \in 1..Len(eyes.blinks) :
        /\ eyes.blinks[i].left = 0 /\ ~eyes.blinks[i].disturbed
        /\ eyes.blinks[i].seen \notin {0, Radius(6), Radius(8), Radius(12)}
        /\ eyes.tweens # <<>>

====
